---------------------------- MODULE Spec2Model ----------------------------
(***************************************************************************)
(* Model of the RomData subclass pattern of rom-properties: the BRSTM,     *)
(* PSF and N64 parsers (header detection, byte-order normalisation, lazy   *)
(* field and metadata extraction) over a reference-counted byte source.    *)
(*                                                                         *)
(* Memory is modelled as bytes.  A structure read from the file is the     *)
(* sequence of its bytes; an integer field is what the host CPU reads      *)
(* from those bytes, so the host's endianness (hostBE) is part of the      *)
(* state.  32-bit values are pairs <<high 16 bits, low 16 bits>> so that   *)
(* the full width is kept and sums wrap modulo 2^32 as in the code.        *)
(***************************************************************************)
EXTENDS Integers, Sequences, FiniteSets, TLC

(***************************************************************************)
(* Bounds of the model.                                                    *)
(***************************************************************************)
\* how many fields of a generated file may deviate from the well-formed one
MaxFaults == 1
\* largest systemName() selector the caller passes
MaxSysNameType == 8

NULL == "nullptr"

(***************************************************************************)
(* errno values (negated by the callers).                                  *)
(***************************************************************************)
EIO == 5
EBADF == 9

(***************************************************************************)
(* Bytes, 16-bit and 32-bit values.                                        *)
(***************************************************************************)
Zeros(n) == [i \in 1..n |-> 0]

\* the n bytes of buf that start at byte offset off (0-based)
Slice(buf, off, n) == [i \in 1..n |-> buf[off + i]]

\* buf with the bytes of data written at byte offset off (0-based)
Patch(buf, off, data) ==
  [i \in 1..Len(buf) |->
     IF i > off /\ i <= off + Len(data) THEN data[i - off] ELSE buf[i]]

\* __swab16
swab16(x) == (x % 256) * 256 + (x \div 256)

\* __swab32, on <<high half, low half>>
swab32(x) == <<swab16(x[2]), swab16(x[1])>>

U32(n) == <<0, n>>
U32Zero == <<0, 0>>

\* x < n for a 32-bit x and a small n
U32LtSmall(x, n) == x[1] = 0 /\ x[2] < n

\* 32-bit unsigned addition: the sum wraps modulo 2^32
U32Add(x, y) ==
  LET lo == x[2] + y[2]
      hi == x[1] + y[1] + (lo \div 65536)
  IN  <<hi % 65536, lo % 65536>>

\* the same sum without wrapping: the high half may reach 2^16 and beyond
WideAdd(x, y) ==
  LET lo == x[2] + y[2]
  IN  <<x[1] + y[1] + (lo \div 65536), lo % 65536>>

WideLe(x, y) == x[1] < y[1] \/ (x[1] = y[1] /\ x[2] <= y[2])

\* unsigned 32-bit x divided by a 16-bit n > 0: [q |-> quotient, r |-> remainder]
U32DivMod(x, n) ==
  LET qh == x[1] \div n
      r1 == x[1] % n
      \* (r1 * 2^16 + x[2]) divided by n, one byte at a time
      t1 == r1 * 256 + (x[2] \div 256)
      t2 == (t1 % n) * 256 + (x[2] % 256)
  IN  [q |-> <<qh, (t1 \div n) * 256 + (t2 \div n)>>, r |-> t2 % n]

\* unsigned 32-bit x times a small n, modulo 2^32
U32MulSmall(x, n) ==
  LET lo == x[2] * n
  IN  <<(x[1] * n + (lo \div 65536)) % 65536, lo % 65536>>

\* the decimal digits printf("%u") prints for a 32-bit x
RECURSIVE U32ToDec(_)
U32ToDec(x) ==
  LET dm == U32DivMod(x, 10)
  IN  IF dm.q = <<0, 0>> THEN ToString(dm.r) ELSE U32ToDec(dm.q) \o ToString(dm.r)

\* printf("%02u") for a number below 2^31
Dec02(n) == IF n < 10 THEN "0" \o ToString(n) ELSE ToString(n)

(***************************************************************************)
(* IEEE-754 single precision, as far as the time functions use it: the     *)
(* quotient of two integers a < b < 2^16, times a constant, truncated to   *)
(* an unsigned integer.  A float is m * 2^(-k) with m below 2^24.          *)
(***************************************************************************)
TwoTo23 == 8388608
TwoTo24 == 16777216

\* m rounded to the nearest, ties to even, after dropping its lowest bit
RoundShift1(m, sticky) ==
  LET h == m \div 2
      low == m % 2
  IN  IF low = 0 THEN h
      ELSE IF sticky THEN h + 1
      ELSE IF h % 2 = 1 THEN h + 1 ELSE h

\* (float)a / (float)b for 0 < a < b: long division until 24 significant
\* bits stand in m, then rounding to nearest even on the remainder r
RECURSIVE F32DivBits(_, _, _, _)
F32DivBits(r, b, m, k) ==
  IF m >= TwoTo23
    THEN [m |-> IF 2 * r > b \/ (2 * r = b /\ m % 2 = 1) THEN m + 1 ELSE m,
          k |-> k]
    ELSE F32DivBits((2 * r) % b, b, 2 * m + (IF 2 * r >= b THEN 1 ELSE 0), k + 1)

F32Div(a, b) == F32DivBits(a, b, 0, 0)

\* p (below 2^31) rounded to 24 significant bits: [m, k] with the value
\* m * 2^(-k); sticky tells that bits were already dropped below p
RECURSIVE F32Round(_, _, _)
F32Round(p, k, sticky) ==
  IF p < TwoTo24 THEN [m |-> p, k |-> k]
  ELSE IF p \div 2 < TwoTo24 THEN [m |-> RoundShift1(p, sticky), k |-> k - 1]
  ELSE F32Round(p \div 2, k - 1, sticky \/ p % 2 = 1)

\* (unsigned int) of the float m * 2^(-k)
RECURSIVE F32Trunc(_, _)
F32Trunc(m, k) ==
  IF k <= 0 \/ m = 0 THEN m ELSE F32Trunc(m \div 2, k - 1)

\* (unsigned int)(((float)a / (float)b) * c), where c = odd * 2^sh
F32QuotTimes(a, b, odd, sh) ==
  LET q == F32Div(a, b)
      p == F32Round(q.m * odd, q.k - sh, FALSE)
  IN  F32Trunc(p.m, p.k)

(***************************************************************************)
(* TextFuncs: formatSampleAsTime, convSampleToMs                           *)
(***************************************************************************)
DIV0 == "#DIV/0!"

\* the whole seconds printed in the minutes' place
FormatSecondsAsMinutes(sample, rate) ==
  IF rate = 0 THEN DIV0
  ELSE LET dm == U32DivMod(sample, rate)
       IN  U32ToDec(dm.q) \o ":00.00"

\* sample is 32-bit, rate is below 2^16
formatSampleAsTime(sample, rate) ==
  IF rate = 0 THEN DIV0
  ELSE LET dm == U32DivMod(sample, rate)
           cs == IF dm.r # 0 THEN F32QuotTimes(dm.r, rate, 25, 2) ELSE 0
           ms == U32DivMod(dm.q, 60)
       IN  U32ToDec(ms.q) \o ":" \o Dec02(ms.r) \o "." \o Dec02(cs)

\* defined for rate # 0 only: sample % rate divides by zero otherwise
convSampleToMs(sample, rate) ==
  LET dm == U32DivMod(sample, rate)
      ms == IF dm.r # 0 THEN F32QuotTimes(dm.r, rate, 125, 3) ELSE 0
  IN  U32Add(U32MulSmall(dm.q, 1000), <<0, ms>>)


(***************************************************************************)
(* State.                                                                  *)
(***************************************************************************)
VARIABLES
  hostBE,     \* TRUE when the build's host CPU is big-endian
  fileData,   \* the bytes of the byte source (IRpFile)
  fileOpen,   \* IRpFile::isOpen()
  refCount,   \* references held on the byte source (the caller holds one)
  unrefs,     \* unref() calls made so far on behalf of the instance
  d,          \* the instance's private data (RomDataPrivate and subclass)
  calls,      \* the latest run of calls of one accessor, the constructor included
  reads,      \* the reads the latest operation issued: <<[op, off, len, got]>>
  alive,      \* FALSE once the process has been killed by a trap
  canon,      \* the test vector the byte source was generated from
  attached,   \* what the instance was constructed over: "null", "open", "closed"
  decryption, \* TRUE when the build defines ENABLE_DECRYPTION
  dir,        \* the package directory a WiiUPackage is constructed over
  pkg,        \* the WiiUPackage instance's private data (WiiUPackagePrivate)
  wcall       \* the latest operation on the WiiUPackage instance

vars ==
  <<hostBE, fileData, fileOpen, refCount, unrefs, d, calls, reads, alive, canon, attached,
    decryption, dir, pkg, wcall>>

(***************************************************************************)
(* Host access to structure fields, and the byteswap macros.               *)
(***************************************************************************)
\* a uint16_t field at byte offset off, as the host reads it
HostU16(buf, off) ==
  IF hostBE THEN buf[off + 1] * 256 + buf[off + 2]
            ELSE buf[off + 2] * 256 + buf[off + 1]

\* a uint32_t field at byte offset off, as the host reads it
HostU32(buf, off) ==
  IF hostBE
    THEN <<buf[off + 1] * 256 + buf[off + 2], buf[off + 3] * 256 + buf[off + 4]>>
    ELSE <<buf[off + 4] * 256 + buf[off + 3], buf[off + 2] * 256 + buf[off + 1]>>

\* the bytes the host stores for a uint32_t value
HostPut32(x) ==
  IF hostBE
    THEN <<x[1] \div 256, x[1] % 256, x[2] \div 256, x[2] % 256>>
    ELSE <<x[2] % 256, x[2] \div 256, x[1] % 256, x[1] \div 256>>

cpu_to_be16(x) == IF hostBE THEN x ELSE swab16(x)
cpu_to_be32(x) == IF hostBE THEN x ELSE swab32(x)
be32_to_cpu(x) == IF hostBE THEN x ELSE swab32(x)

(***************************************************************************)
(* The byte source (IRpFile).  Every operation of the model starts with    *)
(* rewind() or seekAndRead(), so the cursor is local to an operation: a    *)
(* read is described by the offset it starts at.  A read past the end, or  *)
(* on a closed file, is short.                                             *)
(***************************************************************************)
\* the bytes read(off, n) delivers; off is a file offset <<high, low>>
FileRead(off, n) ==
  IF fileOpen /\ off[1] = 0 /\ off[2] < Len(fileData)
    THEN SubSeq(fileData, off[2] + 1,
                IF off[2] + n <= Len(fileData) THEN off[2] + n ELSE Len(fileData))
    ELSE <<>>

\* the log entry of one read; op is "read" or "seekAndRead"
ReadRec(op, off, n) ==
  [op |-> op, off |-> off, len |-> n, got |-> Len(FileRead(off, n))]

\* the destination buffer after the read: a short read fills only a prefix
ReadInto(buf, off) == Patch(buf, 0, FileRead(off, Len(buf)))

(***************************************************************************)
(* Text conversion (TextFuncs.hpp).  Text taken from a file is a sequence  *)
(* of bytes.  The model's files hold ASCII and the upper half of cp1252    *)
(* (0xA0..0xFF), no Shift-JIS double-byte sequence: an ASCII byte is kept  *)
(* and an upper-half byte becomes the two UTF-8 bytes of U+00A0..U+00FF.   *)
(***************************************************************************)
\* c_str(): the bytes up to the first NUL
RECURSIVE CStrFrom(_, _)
CStrFrom(str, p) ==
  IF p > Len(str) \/ str[p] = 0 THEN SubSeq(str, 1, p - 1) ELSE CStrFrom(str, p + 1)

CStr(str) == CStrFrom(str, 1)

Utf8OfCp1252(b) == IF b < 128 THEN <<b>> ELSE <<192 + (b \div 64), 128 + (b % 64)>>

RECURSIVE cp1252_sjis_to_utf8(_)
cp1252_sjis_to_utf8(str) ==
  IF str = <<>> THEN <<>>
  ELSE Utf8OfCp1252(Head(str)) \o cp1252_sjis_to_utf8(Tail(str))


(***************************************************************************)
(* brstm_structs.h                                                         *)
(***************************************************************************)
SizeofBRSTMHeader == 40
SizeofHEADHeader == 32
SizeofHEADChunk1 == 52
BRSTM_MAGIC == <<21075, 21581>>      \* 'RSTM'
BRSTM_HEAD_MAGIC == <<18501, 16708>> \* 'HEAD'
BRSTM_BOM_HOST == 65279              \* 0xFEFF
BRSTM_BOM_SWAP == 65534              \* 0xFFFE

\* DetectInfo: header.addr, header.size, header.pData
\* (hasData is FALSE for a null pData)
DetectInfo(addr, hasData, pData) ==
  [addr |-> addr, size |-> Len(pData), hasData |-> hasData, pData |-> pData]

(***************************************************************************)
(* BRSTM::isRomSupported_static                                            *)
(***************************************************************************)
\* the chunk count read without regard to the byte-order mark
ChunkCountUnswapped(h, needsByteswap) == HostU16(h, 14)

BRSTM_ChunkCount(h, needsByteswap) ==
  IF needsByteswap THEN swab16(HostU16(h, 14)) ELSE HostU16(h, 14)

BRSTM_BomValid(bom) == bom = BRSTM_BOM_HOST \/ bom = BRSTM_BOM_SWAP

BRSTM_ChunksPresent(h) ==
  ~ (\/ HostU32(h, 16) = U32Zero
     \/ HostU32(h, 20) = U32Zero
     \/ HostU32(h, 32) = U32Zero
     \/ HostU32(h, 36) = U32Zero)

BRSTM_isRomSupported_static(info) ==
  IF ~info.hasData \/ info.addr # 0 \/ info.size < SizeofBRSTMHeader
    THEN -1
  ELSE LET h == info.pData IN
    IF HostU32(h, 0) # cpu_to_be32(BRSTM_MAGIC) THEN -1
    ELSE IF ~BRSTM_BomValid(HostU16(h, 4)) THEN -1
    ELSE IF BRSTM_ChunkCount(h, HostU16(h, 4) = BRSTM_BOM_SWAP) < 2 THEN -1
    ELSE IF ~BRSTM_ChunksPresent(h) THEN -1
    ELSE 0


(***************************************************************************)
(* RomDataPrivate: the state every subclass shares.  The constructor       *)
(* takes a reference on the file; isValid starts false, the field list     *)
(* empty and the metadata object absent.                                   *)
(***************************************************************************)
NoMetaData == [present |-> FALSE, props |-> <<>>]

RomDataPrivate(className, hdrSize, file) ==
  [className |-> className,
   file |-> file,            \* file != nullptr ? file->ref() : nullptr
   isValid |-> FALSE,
   hdr |-> Zeros(hdrSize),
   headChunk1 |-> Zeros(SizeofHEADChunk1),
   needsByteswap |-> FALSE,
   romType |-> -1,
   fields |-> <<>>,
   metaData |-> NoMetaData]

\* what an operation hands back: the private data, the reads it issued and
\* the number of unref() calls it made
Outcome(dd, rr, n) == [d |-> dd, reads |-> rr, unrefs |-> n]

\* the pointer cleared without the unref()
NullWithoutUnref(s) == [s EXCEPT !.d.file = FALSE]

\* d->file->unref(); d->file = nullptr;
UnrefAndNull(s) == [s EXCEPT !.d.file = FALSE, !.unrefs = @ + 1]

\* d->isValid = false; then the release above
Invalidate(s) == UnrefAndNull([s EXCEPT !.d.isValid = FALSE])

(***************************************************************************)
(* BRSTM::BRSTM                                                            *)
(***************************************************************************)
\* the 16-bit fields taken in host order whatever the file's byte order
Brstm16Unswapped(needsByteswap, x) == x

brstm16_to_cpu(needsByteswap, x) == IF needsByteswap THEN swab16(x) ELSE x
brstm32_to_cpu(needsByteswap, x) == IF needsByteswap THEN swab32(x) ELSE x

\* the check of the HEAD chunk's offset and size
BRSTM_HeadInvalid(head_offset, head_size) ==
  head_offset = U32Zero \/ U32LtSmall(head_size, SizeofHEADHeader)

\* the check against the 8 bytes of the chunk's magic and size alone
Head1InvalidBelow8(head1_offset) == U32LtSmall(head1_offset, 8)

\* the check of the offset of HEAD chunk part 1
BRSTM_Head1Invalid(head1_offset) ==
  U32LtSmall(head1_offset, SizeofHEADHeader - 8)

\* the file offset of HEAD chunk part 1, computed in uint32_t
BRSTM_Head1Addr(head_offset, head1_offset) ==
  U32Add(U32Add(head_offset, U32(8)), head1_offset)

BRSTM_head_offset(dd) == brstm32_to_cpu(dd.needsByteswap, HostU32(dd.hdr, 16))
BRSTM_head_size(dd) == brstm32_to_cpu(dd.needsByteswap, HostU32(dd.hdr, 20))

\* from "Get the HEAD chunk, part 1" on; headHeader has been read and verified
BRSTM_ctorChunk1(s, head_offset, headHeader) ==
  LET head1_offset == brstm32_to_cpu(s.d.needsByteswap, HostU32(headHeader, 12))
      addr == BRSTM_Head1Addr(head_offset, head1_offset)
      s3 == [s EXCEPT !.d.headChunk1 = ReadInto(@, addr),
                      !.reads = Append(@, ReadRec("seekAndRead", addr, SizeofHEADChunk1))]
  IN  IF BRSTM_Head1Invalid(head1_offset) THEN Invalidate(s)
      ELSE IF ReadRec("seekAndRead", addr, SizeofHEADChunk1).got # SizeofHEADChunk1
        THEN Invalidate(s3)
      ELSE s3

\* from "Get the HEAD header" on; the primary header has been detected
BRSTM_ctorHEAD(s) ==
  LET head_offset == BRSTM_head_offset(s.d)
      head_size == BRSTM_head_size(s.d)
      headHeader == ReadInto(Zeros(SizeofHEADHeader), head_offset)
      s2 == [s EXCEPT !.reads = Append(@, ReadRec("seekAndRead", head_offset, SizeofHEADHeader))]
  IN  IF BRSTM_HeadInvalid(head_offset, head_size) THEN Invalidate(s)
      ELSE IF ReadRec("seekAndRead", head_offset, SizeofHEADHeader).got # SizeofHEADHeader
        THEN Invalidate(s2)
      ELSE IF HostU32(headHeader, 0) # cpu_to_be32(BRSTM_HEAD_MAGIC)
        THEN Invalidate(s2)
      ELSE BRSTM_ctorChunk1(s2, head_offset, headHeader)

BRSTM_ctor(file) ==
  LET d0 == RomDataPrivate("BRSTM", SizeofBRSTMHeader, file)
      s1 == Outcome([d0 EXCEPT !.hdr = ReadInto(@, U32Zero)],
                    <<ReadRec("read", U32Zero, SizeofBRSTMHeader)>>, 0)
      valid == BRSTM_isRomSupported_static(DetectInfo(0, TRUE, s1.d.hdr)) >= 0
  IN  IF ~d0.file THEN Outcome(d0, <<>>, 0)
      ELSE IF s1.reads[1].got # SizeofBRSTMHeader THEN UnrefAndNull(s1)
      ELSE IF ~valid THEN UnrefAndNull([s1 EXCEPT !.d.isValid = FALSE])
      ELSE BRSTM_ctorHEAD(
             [s1 EXCEPT !.d.isValid = TRUE,
                        !.d.needsByteswap = (HostU16(s1.d.hdr, 4) = BRSTM_BOM_SWAP)])


(***************************************************************************)
(* RomData::isSystemNameTypeValid and the subclasses' systemName()         *)
(***************************************************************************)
SYSNAME_TYPE_MASK == 3

isSystemNameTypeValid(type) ==
  /\ type % 4 <= 2          \* (type & SYSNAME_TYPE_MASK) <= abbreviation
  /\ type \div 8 = 0        \* no bits beyond the region bit and the type

BRSTM_sysNames == <<"Nintendo Wii BRSTM", "BRSTM", "BRSTM", NULL>>

BRSTM_systemName(dd, type) ==
  IF ~dd.isValid \/ ~isSystemNameTypeValid(type) THEN NULL
  ELSE BRSTM_sysNames[(type % (SYSNAME_TYPE_MASK + 1)) + 1]

(***************************************************************************)
(* BRSTM::loadFieldData, BRSTM::loadMetaData                               *)
(***************************************************************************)
Field(name, value) == [name |-> name, value |-> value]

\* what a load hands back: the private data, the return value, the reads
\* it issued, and whether the process survived
Loaded(dd, ret, rr) == [d |-> dd, ret |-> ret, reads |-> rr, alive |-> TRUE]
Trapped(dd) == [d |-> dd, ret |-> 0, reads |-> <<>>, alive |-> FALSE]

BRSTM_codec_tbl == <<"Signed 8-bit PCM", "Signed 16-bit PCM", "4-bit THP ADPCM">>

BRSTM_sample_rate(dd) == brstm16_to_cpu(dd.needsByteswap, HostU16(dd.headChunk1, 4))
BRSTM_loop_start(dd) == brstm32_to_cpu(dd.needsByteswap, HostU32(dd.headChunk1, 8))
BRSTM_sample_count(dd) == brstm32_to_cpu(dd.needsByteswap, HostU32(dd.headChunk1, 12))

BRSTM_fields(dd) ==
  LET codec == dd.headChunk1[1]
      loop_flag == dd.headChunk1[2]
      sample_rate == BRSTM_sample_rate(dd)
  IN  << Field("Version", ToString(dd.hdr[7]) \o "." \o ToString(dd.hdr[8])),
         Field("Endianness",
               IF HostU16(dd.hdr, 4) = cpu_to_be16(BRSTM_BOM_HOST)
                 THEN "Big-Endian" ELSE "Little-Endian"),
         Field("Codec",
               IF codec < Len(BRSTM_codec_tbl) THEN BRSTM_codec_tbl[codec + 1]
               ELSE "Unknown (" \o ToString(codec) \o ")"),
         Field("Channels", ToString(dd.headChunk1[3])),
         Field("Sample Rate", ToString(sample_rate) \o " Hz"),
         Field("Length", formatSampleAsTime(BRSTM_sample_count(dd), sample_rate)),
         Field("Looping", IF loop_flag # 0 THEN "Yes" ELSE "No") >>
      \o (IF loop_flag # 0
            THEN <<Field("Loop Start",
                         formatSampleAsTime(BRSTM_loop_start(dd), sample_rate))>>
            ELSE <<>>)

\* a load that answers with the cached count once the fields are there
LoadFieldDataCachedCount(dd) ==
  IF dd.fields # <<>> THEN Loaded(dd, Len(dd.fields), <<>>)
  ELSE IF ~dd.file THEN Loaded(dd, -EBADF, <<>>)
  ELSE IF ~dd.isValid THEN Loaded(dd, -EIO, <<>>)
  ELSE LET dd2 == [dd EXCEPT !.fields = BRSTM_fields(dd)]
       IN  Loaded(dd2, Len(dd2.fields), <<>>)

BRSTM_loadFieldData(dd) ==
  IF dd.fields # <<>> THEN Loaded(dd, 0, <<>>)
  ELSE IF ~dd.file THEN Loaded(dd, -EBADF, <<>>)
  ELSE IF ~dd.isValid THEN Loaded(dd, -EIO, <<>>)
  ELSE LET dd2 == [dd EXCEPT !.fields = BRSTM_fields(dd)]
       IN  Loaded(dd2, Len(dd2.fields), <<>>)

\* what a division by zero may leave in the result where it does not trap
UBValues == {<<0, 0>>, <<65535, 65535>>}

BRSTM_props(dd, duration) ==
  << Field("Channels", dd.headChunk1[3]),
     Field("SampleRate", BRSTM_sample_rate(dd)),
     Field("Duration", duration) >>

\* the set of possible outcomes: convSampleToMs divides by the sample rate
BRSTM_loadMetaData(dd) ==
  IF dd.metaData.present THEN {Loaded(dd, 0, <<>>)}
  ELSE IF ~dd.file THEN {Loaded(dd, -EBADF, <<>>)}
  ELSE IF ~dd.isValid THEN {Loaded(dd, -EIO, <<>>)}
  ELSE LET with(duration) ==
             Loaded([dd EXCEPT !.metaData =
                       [present |-> TRUE, props |-> BRSTM_props(dd, duration)]],
                    Len(BRSTM_props(dd, duration)), <<>>)
       IN  IF BRSTM_sample_rate(dd) = 0
             THEN {Trapped(dd)} \cup {with(v) : v \in UBValues}
             ELSE {with(convSampleToMs(BRSTM_sample_count(dd), BRSTM_sample_rate(dd)))}


(***************************************************************************)
(* n64_structs.h: the 64-byte ROM header and the four magic numbers, as    *)
(* the bytes cpu_to_be64() of each constant has in memory.                 *)
(***************************************************************************)
SizeofN64RomHeader == 64
N64_Z64_MAGIC == <<128, 55, 18, 64, 0, 0, 0, 15>>     \* 0x803712400000000F
N64_V64_MAGIC == <<55, 128, 64, 18, 0, 0, 15, 0>>     \* 0x3780401200000F00
N64_SWAP2_MAGIC == <<18, 64, 128, 55, 0, 15, 0, 0>>   \* 0x12408037000F0000
N64_LE32_MAGIC == <<64, 18, 55, 128, 15, 0, 0, 0>>    \* 0x401237800F000000

ROM_TYPE_UNKNOWN == -1
ROM_TYPE_Z64 == 0
ROM_TYPE_V64 == 1
ROM_TYPE_SWAP2 == 2
ROM_TYPE_LE32 == 3

(***************************************************************************)
(* N64::isRomSupported_static                                              *)
(***************************************************************************)
\* romHeader->magic64 == cpu_to_be64(magic): the first 8 bytes are magic's
N64_magic64Is(h, magic) == Slice(h, 0, 8) = magic

\* the detector without the check of the buffer's offset
N64DetectAnyOffset(info) ==
  IF ~info.hasData \/ info.size < SizeofN64RomHeader THEN -1
  ELSE LET h == info.pData IN
    IF N64_magic64Is(h, N64_Z64_MAGIC) THEN ROM_TYPE_Z64
    ELSE IF N64_magic64Is(h, N64_V64_MAGIC) THEN ROM_TYPE_V64
    ELSE IF N64_magic64Is(h, N64_SWAP2_MAGIC) THEN ROM_TYPE_SWAP2
    ELSE IF N64_magic64Is(h, N64_LE32_MAGIC) THEN ROM_TYPE_LE32
    ELSE ROM_TYPE_UNKNOWN

N64_isRomSupported_static(info) ==
  IF ~info.hasData \/ info.addr # 0 \/ info.size < SizeofN64RomHeader
    THEN -1
  ELSE LET h == info.pData IN
    IF N64_magic64Is(h, N64_Z64_MAGIC) THEN ROM_TYPE_Z64
    ELSE IF N64_magic64Is(h, N64_V64_MAGIC) THEN ROM_TYPE_V64
    ELSE IF N64_magic64Is(h, N64_SWAP2_MAGIC) THEN ROM_TYPE_SWAP2
    ELSE IF N64_magic64Is(h, N64_LE32_MAGIC) THEN ROM_TYPE_LE32
    ELSE ROM_TYPE_UNKNOWN

(***************************************************************************)
(* N64::N64                                                                *)
(***************************************************************************)
\* __byte_swap_16_array over the whole header
byte_swap_16_array(h) ==
  [i \in 1..Len(h) |-> IF i % 2 = 1 THEN h[i + 1] ELSE h[i - 1]]

\* every uint32_t element of the header replaced by f of it
MapU32(h, f(_)) ==
  [i \in 1..Len(h) |->
     HostPut32(f(HostU32(h, 4 * ((i - 1) \div 4))))[((i - 1) % 4) + 1]]

\* UNSWAP2(x): (x >> 16) | (x << 16)
\* a word left as it is
Unswap2Nothing(x) == x

UNSWAP2(x) == <<x[2], x[1]>>

\* __byte_swap_32_array over the whole header
byte_swap_32_array(h) == MapU32(h, swab32)

\* the header brought to Z64 layout for the detected ROM type
N64_toZ64(h, romType) ==
  CASE romType = ROM_TYPE_Z64 -> h
    [] romType = ROM_TYPE_V64 -> byte_swap_16_array(h)
    [] romType = ROM_TYPE_SWAP2 -> MapU32(h, UNSWAP2)
    [] romType = ROM_TYPE_LE32 -> byte_swap_32_array(h)

\* one uint32_t field converted in place with be32_to_cpu
FieldToCpu(h, off) == Patch(h, off, HostPut32(be32_to_cpu(HostU32(h, off))))

\* init_pi, clockrate, entrypoint, crc[0], crc[1]
N64_headerToCpu(h) ==
  FieldToCpu(FieldToCpu(FieldToCpu(FieldToCpu(FieldToCpu(h, 0), 4), 8), 16), 20)

N64_ctor(file) ==
  LET d0 == RomDataPrivate("N64", SizeofN64RomHeader, file)
      s1 == Outcome([d0 EXCEPT !.hdr = ReadInto(@, U32Zero)],
                    <<ReadRec("read", U32Zero, SizeofN64RomHeader)>>, 0)
      romType == N64_isRomSupported_static(DetectInfo(0, TRUE, s1.d.hdr))
  IN  IF ~d0.file THEN Outcome(d0, <<>>, 0)
      ELSE IF s1.reads[1].got # SizeofN64RomHeader THEN UnrefAndNull(s1)
      ELSE IF romType \notin {ROM_TYPE_Z64, ROM_TYPE_V64, ROM_TYPE_SWAP2, ROM_TYPE_LE32}
        THEN UnrefAndNull([s1 EXCEPT !.d.romType = ROM_TYPE_UNKNOWN])
      ELSE [s1 EXCEPT !.d.romType = romType,
                      !.d.isValid = TRUE,
                      !.d.hdr = N64_headerToCpu(N64_toZ64(@, romType))]

(***************************************************************************)
(* N64::systemName, N64::loadFieldData, N64::loadMetaData                  *)
(***************************************************************************)
N64_sysNames == <<"Nintendo 64", "Nintendo 64", "N64", NULL>>

\* the name looked up without the test of the validity flag
N64SystemNameOfAny(dd, type) ==
  IF ~isSystemNameTypeValid(type) THEN NULL
  ELSE N64_sysNames[(type % (SYSNAME_TYPE_MASK + 1)) + 1]

N64_systemName(dd, type) ==
  IF ~dd.isValid \/ ~isSystemNameTypeValid(type) THEN NULL
  ELSE N64_sysNames[(type % (SYSNAME_TYPE_MASK + 1)) + 1]

ISPRINT(c) == c >= 32 /\ c <= 126
ISALPHA(c) == (c >= 65 /\ c <= 90) \/ (c >= 97 /\ c <= 122)

\* the string without its trailing spaces (STRF_TRIM_END)
RECURSIVE TrimEnd(_)
TrimEnd(str) ==
  IF str # <<>> /\ str[Len(str)] = 32 THEN TrimEnd(SubSeq(str, 1, Len(str) - 1))
  ELSE str

N64_fields(dd) ==
  LET h == dd.hdr
      os_version == Slice(h, 12, 4)
  IN  << Field("Title", TrimEnd(cp1252_sjis_to_utf8(Slice(h, 32, 20)))),
         Field("Game ID", [i \in 1..4 |-> IF ISPRINT(h[59 + i]) THEN h[59 + i] ELSE 95]),
         Field("Revision", Dec02(h[64])),
         Field("Entry Point", HostU32(h, 8)),
         Field("OS Version",
               IF os_version[1] = 0 /\ os_version[2] = 0 /\ ISALPHA(os_version[4])
                 THEN <<"OS", os_version[3], os_version[4]>>
                 ELSE <<"hexdump", os_version>>),
         Field("CRCs", <<HostU32(h, 16), HostU32(h, 20)>>) >>

N64_loadFieldData(dd) ==
  IF dd.fields # <<>> THEN Loaded(dd, 0, <<>>)
  ELSE IF ~dd.file \/ ~fileOpen THEN Loaded(dd, -EBADF, <<>>)
  ELSE IF ~dd.isValid \/ dd.romType < 0 THEN Loaded(dd, -EIO, <<>>)
  ELSE LET dd2 == [dd EXCEPT !.fields = N64_fields(dd)]
       IN  Loaded(dd2, Len(dd2.fields), <<>>)

N64_props(dd) ==
  << Field("Title", TrimEnd(cp1252_sjis_to_utf8(Slice(dd.hdr, 32, 20)))) >>

N64_loadMetaData(dd) ==
  IF dd.metaData.present THEN {Loaded(dd, 0, <<>>)}
  ELSE IF ~dd.file THEN {Loaded(dd, -EBADF, <<>>)}
  ELSE IF ~dd.isValid \/ dd.romType < 0 THEN {Loaded(dd, -EIO, <<>>)}
  ELSE {Loaded([dd EXCEPT !.metaData = [present |-> TRUE, props |-> N64_props(dd)]],
               Len(N64_props(dd)), <<>>)}


(***************************************************************************)
(* sscanf, as far as the PSF parser uses it.  Strings are byte sequences,  *)
(* positions are 1-based.                                                  *)
(***************************************************************************)
ISSPACE(c) == c \in {9, 10, 11, 12, 13, 32}
ISDIGIT(c) == c >= 48 /\ c <= 57

RECURSIVE SkipSpace(_, _)
SkipSpace(str, p) ==
  IF p <= Len(str) /\ ISSPACE(str[p]) THEN SkipSpace(str, p + 1) ELSE p

\* the run of digits at p, at most width of them (width < 0: no limit):
\* [val |-> the number modulo 2^32, next |-> the position after the run]
RECURSIVE ScanDigits(_, _, _, _)
ScanDigits(str, p, width, acc) ==
  IF p <= Len(str) /\ ISDIGIT(str[p]) /\ width # 0
    THEN ScanDigits(str, p + 1, width - 1,
                    U32Add(U32MulSmall(acc, 10), <<0, str[p] - 48>>))
    ELSE [val |-> acc, next |-> p]

U32Neg(x) == U32Add(<<65535 - x[1], 65535 - x[2]>>, <<0, 1>>)

\* one integer conversion (%u, %d) of at most width characters:
\* leading white space, an optional sign, digits
ScanInt(str, p, width) ==
  LET p1 == SkipSpace(str, p)
      signed == p1 <= Len(str) /\ str[p1] \in {43, 45} /\ width # 1
      p2 == IF signed THEN p1 + 1 ELSE p1
      dg == ScanDigits(str, p2, IF signed THEN width - 1 ELSE width, <<0, 0>>)
  IN  [ok |-> dg.next > p2,
       eof |-> p1 > Len(str),
       neg |-> signed /\ str[p1] = 45,
       mag |-> dg.val,
       val |-> IF signed /\ str[p1] = 45 THEN U32Neg(dg.val) ELSE dg.val,
       next |-> dg.next]

\* sscanf(str, fmt), where fmt is a sequence of items: 0 for %u, any other
\* number for that literal character.  [n |-> return value, vals |-> the
\* values stored, in order]
RECURSIVE ScanFmt(_, _, _, _, _)
ScanFmt(str, p, fmt, i, vals) ==
  IF i > Len(fmt) THEN [n |-> Len(vals), vals |-> vals]
  ELSE IF fmt[i] = 0
    THEN LET r == ScanInt(str, p, -1)
         IN  IF r.ok THEN ScanFmt(str, r.next, fmt, i + 1, Append(vals, r.val))
             ELSE [n |-> IF vals = <<>> /\ r.eof THEN -1 ELSE Len(vals), vals |-> vals]
  ELSE IF p <= Len(str) /\ str[p] = fmt[i]
    THEN ScanFmt(str, p + 1, fmt, i + 1, vals)
  ELSE [n |-> Len(vals), vals |-> vals]

sscanf(str, fmt) == ScanFmt(str, 1, fmt, 1, <<>>)

\* strchr: the position of the first c in str, 0 when there is none
RECURSIVE StrChrFrom(_, _, _)
StrChrFrom(str, c, p) ==
  IF p > Len(str) THEN 0
  ELSE IF str[p] = c THEN p ELSE StrChrFrom(str, c, p + 1)

strchr(str, c) == StrChrFrom(str, c, 1)

(***************************************************************************)
(* psf_structs.h                                                           *)
(***************************************************************************)
SizeofPSFHeader == 16
PSF_MAGIC == <<80, 83, 70>>              \* "PSF"
SizeofPSFTagMagic == 5                   \* sizeof("[TAG]") - 1

PSF_VERSION_PLAYSTATION == 1
PSF_VERSION_PLAYSTATION_2 == 2
PSF_VERSION_SATURN == 17
PSF_VERSION_DREAMCAST == 18
PSF_VERSION_MEGA_DRIVE == 19
PSF_VERSION_N64 == 33
PSF_VERSION_GBA == 34
PSF_VERSION_SNES == 35
PSF_VERSION_QSOUND == 65

K_title == <<116, 105, 116, 108, 101>>
K_artist == <<97, 114, 116, 105, 115, 116>>
K_game == <<103, 97, 109, 101>>
K_year == <<121, 101, 97, 114>>
K_genre == <<103, 101, 110, 114, 101>>
K_copyright == <<99, 111, 112, 121, 114, 105, 103, 104, 116>>
K_volume == <<118, 111, 108, 117, 109, 101>>
K_length == <<108, 101, 110, 103, 116, 104>>
K_fade == <<102, 97, 100, 101>>
K_comment == <<99, 111, 109, 109, 101, 110, 116>>
K_utf8 == <<117, 116, 102, 56>>
K_psfby == <<112, 115, 102, 98, 121>>
K_ssfby == <<115, 115, 102, 98, 121>>
K_dsfby == <<100, 115, 102, 98, 121>>
K_msfby == <<109, 115, 102, 98, 121>>
K_usfby == <<117, 115, 102, 98, 121>>
K_gsfby == <<103, 115, 102, 98, 121>>
K_snsfby == <<115, 110, 115, 102, 98, 121>>
K_qsfby == <<113, 115, 102, 98, 121>>

le32_to_cpu(x) == IF hostBE THEN swab32(x) ELSE x

(***************************************************************************)
(* PSFPrivate::parseTags                                                   *)
(***************************************************************************)
NoTags == [k \in {} |-> <<>>]

tolower(c) == IF c >= 65 /\ c <= 90 THEN c + 32 ELSE c

\* memchr: the 0-based index of the first c in data[from, to), or to
RECURSIVE MemChr(_, _, _, _)
MemChr(data, c, from, to) ==
  IF from >= to THEN to
  ELSE IF data[from + 1] = c THEN from ELSE MemChr(data, c, from + 1, to)

\* kv.emplace(key, value): an existing entry is left as it is
Emplace(kv, key, value) ==
  IF key \in DOMAIN kv THEN kv
  ELSE [k \in DOMAIN kv \cup {key} |-> IF k = key THEN value ELSE kv[k]]

\* the line loop, from byte p (0-based) on
RECURSIVE PSF_parseLines(_, _, _, _)
PSF_parseLines(data, p, kv, isUtf8) ==
  IF p >= Len(data) THEN [kv |-> kv, isUtf8 |-> isUtf8]
  ELSE LET nl == MemChr(data, 10, p, Len(data))
           eq == MemChr(data, 61, p, nl)
           k_len == eq - p
           v_len == nl - eq - 1
           key == [i \in 1..k_len |-> tolower(data[p + i])]
       IN  IF p = nl THEN PSF_parseLines(data, p + 1, kv, isUtf8)
           ELSE IF eq < nl /\ k_len > 0 /\ v_len > 0
             THEN PSF_parseLines(data, nl + 1,
                                 Emplace(kv, key, Slice(data, eq + 1, v_len)),
                                 isUtf8 \/ key = K_utf8)
           ELSE PSF_parseLines(data, nl + 1, kv, isUtf8)

\* the values converted whether or not a utf8 tag was seen
ConvertTagsAlways(parsed) ==
  [k \in DOMAIN parsed.kv |-> cp1252_sjis_to_utf8(CStr(parsed.kv[k]))]

\* the values converted unless a utf8 tag was seen
PSF_convertTags(parsed) ==
  IF parsed.isUtf8 THEN parsed.kv
  ELSE [k \in DOMAIN parsed.kv |-> cp1252_sjis_to_utf8(CStr(parsed.kv[k]))]

\* [tags |-> the map, reads |-> the reads issued]; tag_addr is off64_t
\* off64_t data_len = file->size() - tag_addr - sizeof(tag_magic)
PSF_tagDataLen(size, tag_addr) == size - tag_addr - SizeofPSFTagMagic

\* the bytes parseTags allocates, and asks read() for, when the file has
\* size bytes: none when the tag magic cannot be read in full or nothing
\* follows it
PSF_tagRegion(size, tag_addr) ==
  LET got == IF tag_addr + SizeofPSFTagMagic <= size THEN SizeofPSFTagMagic
             ELSE IF tag_addr < size THEN size - tag_addr ELSE 0
      data_len == PSF_tagDataLen(size, tag_addr)
  IN  IF got # SizeofPSFTagMagic THEN 0
      ELSE IF data_len <= 0 THEN 0
      ELSE data_len

PSF_parseTags(tag_addr) ==
  LET r1 == ReadRec("seekAndRead", tag_addr, SizeofPSFTagMagic)
      data_addr == WideAdd(tag_addr, <<0, SizeofPSFTagMagic>>)
      \* file->size() - tag_addr - sizeof(tag_magic); the magic was read in
      \* full, so tag_addr is below 2^16 here
      data_len == PSF_tagDataLen(Len(fileData), tag_addr[2])
      r2 == ReadRec("read", data_addr, data_len)
  IN  IF r1.got # SizeofPSFTagMagic THEN [tags |-> NoTags, reads |-> <<r1>>]
      ELSE IF data_len <= 0 THEN [tags |-> NoTags, reads |-> <<r1>>]
      ELSE IF r2.got # data_len THEN [tags |-> NoTags, reads |-> <<r1, r2>>]
      ELSE [tags |-> PSF_convertTags(
                       PSF_parseLines(FileRead(data_addr, data_len), 0, NoTags, FALSE)),
            reads |-> <<r1, r2>>]

(***************************************************************************)
(* PSFPrivate::getRippedByTagName, PSFPrivate::lengthToMs                  *)
(***************************************************************************)
PSF_getRippedByTagName(version) ==
  CASE version = PSF_VERSION_PLAYSTATION -> K_psfby
    [] version = PSF_VERSION_PLAYSTATION_2 -> K_psfby
    [] version = PSF_VERSION_SATURN -> K_ssfby
    [] version = PSF_VERSION_DREAMCAST -> K_dsfby
    [] version = PSF_VERSION_MEGA_DRIVE -> K_msfby
    [] version = PSF_VERSION_N64 -> K_usfby
    [] version = PSF_VERSION_GBA -> K_gsfby
    [] version = PSF_VERSION_SNES -> K_snsfby
    [] version = PSF_VERSION_QSOUND -> K_qsfby
    [] OTHER -> K_psfby

\* the digits that follow position dp
RECURSIVE CountDigits(_, _)
CountDigits(str, p) ==
  IF p <= Len(str) /\ ISDIGIT(str[p]) THEN 1 + CountDigits(str, p + 1) ELSE 0

\* every fraction taken as thousandths
FracAdjThousandths(str) == 1

PSF_frac_adj(str) ==
  LET dp == IF strchr(str, 46) # 0 THEN strchr(str, 46) ELSE strchr(str, 44)
      digit_count == CountDigits(str, dp + 1)
  IN  IF dp = 0 THEN 0
      ELSE CASE digit_count = 0 -> 0
             [] digit_count = 1 -> 100
             [] digit_count = 2 -> 10
             [] OTHER -> 1

\* a * b modulo 2^32 for b = 3600000, 60000, 1000
HoursToMs(x) == U32MulSmall(U32MulSmall(x, 3600), 1000)
MinutesToMs(x) == U32MulSmall(U32MulSmall(x, 60), 1000)
SecondsToMs(x) == U32MulSmall(x, 1000)

\* the first attempt with '.', the second with ',' when the first fell short
ScanEither(str, dotFmt, commaFmt, want) ==
  IF sscanf(str, dotFmt).n # want THEN sscanf(str, commaFmt) ELSE sscanf(str, dotFmt)

PSF_lengthToMs(str) ==
  LET frac_adj == PSF_frac_adj(str)
      hmsf == ScanEither(str, <<0, 58, 0, 58, 0, 46, 0>>, <<0, 58, 0, 58, 0, 44, 0>>, 4)
      hms == sscanf(str, <<0, 58, 0, 58, 0>>)
      msf == ScanEither(str, <<0, 58, 0, 46, 0>>, <<0, 58, 0, 44, 0>>, 3)
      ms == sscanf(str, <<0, 58, 0>>)
      sf == ScanEither(str, <<0, 46, 0>>, <<0, 44, 0>>, 2)
      sonly == sscanf(str, <<0>>)
      \* min is not assigned by the seconds.decimal scan: it holds what the
      \* minutes:seconds scan stored, the first number of the string
      min == ms.vals[1]
  IN  IF hmsf.n = 4
        THEN U32Add(U32Add(HoursToMs(hmsf.vals[1]), MinutesToMs(hmsf.vals[2])),
                    U32Add(SecondsToMs(hmsf.vals[3]), U32MulSmall(hmsf.vals[4], frac_adj)))
      ELSE IF hms.n = 3
        THEN U32Add(U32Add(HoursToMs(hms.vals[1]), MinutesToMs(hms.vals[2])),
                    SecondsToMs(hms.vals[3]))
      ELSE IF msf.n = 3
        THEN U32Add(U32Add(MinutesToMs(msf.vals[1]), SecondsToMs(msf.vals[2])),
                    U32MulSmall(msf.vals[3], frac_adj))
      ELSE IF ms.n = 2
        THEN U32Add(MinutesToMs(ms.vals[1]), SecondsToMs(ms.vals[2]))
      ELSE IF sf.n = 2
        THEN U32Add(U32Add(MinutesToMs(min), SecondsToMs(sf.vals[1])),
                    U32MulSmall(sf.vals[2], frac_adj))
      ELSE IF sonly.n = 1 THEN sonly.vals[1]
      ELSE <<0, 0>>

(***************************************************************************)
(* PSF::PSF, PSF::isRomSupported_static, PSF::systemName                   *)
(***************************************************************************)
\* a PSF detector that remembers it was the last one asked
PsfDetectOnce(info) ==
  IF calls # <<>> /\ calls[Len(calls)].op = "PSF::isRomSupported_static" THEN -1
  ELSE IF ~info.hasData \/ info.addr # 0 \/ info.size < SizeofPSFHeader THEN -1
  ELSE IF Slice(info.pData, 0, 3) = PSF_MAGIC THEN 0
  ELSE -1

PSF_isRomSupported_static(info) ==
  IF ~info.hasData \/ info.addr # 0 \/ info.size < SizeofPSFHeader THEN -1
  ELSE IF Slice(info.pData, 0, 3) = PSF_MAGIC THEN 0
  ELSE -1

PSF_ctor(file) ==
  LET d0 == RomDataPrivate("PSF", SizeofPSFHeader, file)
      s1 == Outcome([d0 EXCEPT !.hdr = ReadInto(@, U32Zero)],
                    <<ReadRec("read", U32Zero, SizeofPSFHeader)>>, 0)
      valid == PSF_isRomSupported_static(DetectInfo(0, TRUE, s1.d.hdr)) >= 0
  IN  IF ~d0.file THEN Outcome(d0, <<>>, 0)
      ELSE IF s1.reads[1].got # SizeofPSFHeader THEN UnrefAndNull(s1)
      ELSE IF ~valid THEN UnrefAndNull([s1 EXCEPT !.d.isValid = FALSE])
      ELSE [s1 EXCEPT !.d.isValid = TRUE]

PSF_sysNames == <<"Portable Sound Format", "PSF", "PSF", NULL>>

PSF_systemName(dd, type) ==
  IF ~dd.isValid \/ ~isSystemNameTypeValid(type) THEN NULL
  ELSE PSF_sysNames[(type % (SYSNAME_TYPE_MASK + 1)) + 1]

(***************************************************************************)
(* PSF::loadFieldData, PSF::loadMetaData                                   *)
(***************************************************************************)
PSF_sysname_lkup(version) ==
  CASE version = PSF_VERSION_PLAYSTATION -> "Sony PlayStation"
    [] version = PSF_VERSION_PLAYSTATION_2 -> "Sony PlayStation 2"
    [] version = PSF_VERSION_SATURN -> "Sega Saturn"
    [] version = PSF_VERSION_DREAMCAST -> "Sega Dreamcast"
    [] version = PSF_VERSION_MEGA_DRIVE -> "Sega Mega Drive"
    [] version = PSF_VERSION_N64 -> "Nintendo 64"
    [] version = PSF_VERSION_GBA -> "Game Boy Advance"
    [] version = PSF_VERSION_SNES -> "Super NES"
    [] version = PSF_VERSION_QSOUND -> "Capcom QSound"
    [] OTHER -> NULL

HexDigits == <<"0", "1", "2", "3", "4", "5", "6", "7", "8", "9",
               "A", "B", "C", "D", "E", "F">>

\* printf("%02X") of a byte
Hex02(b) == HexDigits[(b \div 16) + 1] \o HexDigits[(b % 16) + 1]

\* sizeof(*psfHeader) + reserved_size + compressed_prg_length, in off64_t
PSF_tag_addr(dd) ==
  WideAdd(WideAdd(<<0, SizeofPSFHeader>>, le32_to_cpu(HostU32(dd.hdr, 4))),
          le32_to_cpu(HostU32(dd.hdr, 8)))

\* the field of one tag, when the tag is there
TagField(tags, key, name) ==
  IF key \in DOMAIN tags THEN <<Field(name, tags[key])>> ELSE <<>>

PSF_fields(dd, tags) ==
  LET version == dd.hdr[4]
      ripped_by_tag == PSF_getRippedByTagName(version)
  IN  << Field("System",
               IF PSF_sysname_lkup(version) # NULL THEN PSF_sysname_lkup(version)
               ELSE "Unknown (0x" \o Hex02(version) \o ")") >>
      \o (IF DOMAIN tags = {} THEN <<>>
          ELSE TagField(tags, K_title, "Title")
               \o TagField(tags, K_artist, "Artist")
               \o TagField(tags, K_game, "Game")
               \o TagField(tags, K_year, "Release Date")
               \o TagField(tags, K_genre, "Genre")
               \o TagField(tags, K_copyright, "Copyright")
               \o (IF ripped_by_tag \in DOMAIN tags
                     THEN TagField(tags, ripped_by_tag, "Ripped By")
                     ELSE TagField(tags, K_psfby, "Ripped By"))
               \o TagField(tags, K_volume, "Volume")
               \o TagField(tags, K_length, "Duration")
               \o TagField(tags, K_fade, "Fadeout Duration")
               \o TagField(tags, K_comment, "Comment"))

PSF_loadFieldData(dd) ==
  IF dd.fields # <<>> THEN Loaded(dd, 0, <<>>)
  ELSE IF ~dd.file THEN Loaded(dd, -EBADF, <<>>)
  ELSE IF ~dd.isValid THEN Loaded(dd, -EIO, <<>>)
  ELSE LET pt == PSF_parseTags(PSF_tag_addr(dd))
           dd2 == [dd EXCEPT !.fields = PSF_fields(dd, pt.tags)]
       IN  Loaded(dd2, Len(dd2.fields), pt.reads)

\* a year tag of any content taken as the year 0
ReleaseYearDefaultsToZero(str) == [ok |-> TRUE, year |-> 0]

\* sscanf(value, "%04d%c", &year, &chr) and the test of its result:
\* [ok |-> the year is taken, year |-> its value]
PSF_releaseYear(str) ==
  LET y == ScanInt(str, 1, 4)
      hasChr == y.ok /\ y.next <= Len(str)
      chr == str[y.next]
      s == IF ~y.ok THEN (IF y.eof THEN -1 ELSE 0) ELSE IF hasChr THEN 2 ELSE 1
  IN  [ok |-> /\ (s = 1 \/ (s = 2 /\ chr \in {45, 47}))
              /\ ~(y.neg /\ y.mag # <<0, 0>>)      \* year >= 0
              /\ y.mag[1] = 0 /\ y.mag[2] < 10000, \* year < 10000
       year |-> y.mag[2]]

PSF_props(tags) ==
  TagField(tags, K_title, "Title")
  \o TagField(tags, K_artist, "Artist")
  \o TagField(tags, K_game, "Album")
  \o (IF K_year \in DOMAIN tags /\ PSF_releaseYear(CStr(tags[K_year])).ok
        THEN <<Field("ReleaseYear", PSF_releaseYear(CStr(tags[K_year])).year)>> ELSE <<>>)
  \o TagField(tags, K_genre, "Genre")
  \o TagField(tags, K_copyright, "Copyright")
  \o (IF K_length \in DOMAIN tags
        THEN <<Field("Duration", PSF_lengthToMs(CStr(tags[K_length])))>> ELSE <<>>)
  \o TagField(tags, K_comment, "Subject")

PSF_loadMetaData(dd) ==
  IF dd.metaData.present THEN {Loaded(dd, 0, <<>>)}
  ELSE IF ~dd.file THEN {Loaded(dd, -EBADF, <<>>)}
  ELSE IF ~dd.isValid THEN {Loaded(dd, -EIO, <<>>)}
  ELSE LET pt == PSF_parseTags(PSF_tag_addr(dd))
       IN  IF DOMAIN pt.tags = {} THEN {Loaded(dd, -EIO, pt.reads)}
           ELSE {Loaded([dd EXCEPT !.metaData =
                           [present |-> TRUE, props |-> PSF_props(pt.tags)]],
                        Len(PSF_props(pt.tags)), pt.reads)}


(***************************************************************************)
(* Test vectors: the byte sources the instances are constructed over.      *)
(* A vector describes a file by its logical field values; the file is the  *)
(* bytes those values have in the layout of the format.  A vector may      *)
(* deviate from the well-formed file in at most MaxFaults fault fields.    *)
(***************************************************************************)
Put16(be, v) == IF be THEN <<v \div 256, v % 256>> ELSE <<v % 256, v \div 256>>
Put32(be, x) ==
  IF be THEN Put16(TRUE, x[1]) \o Put16(TRUE, x[2])
        ELSE Put16(FALSE, x[2]) \o Put16(FALSE, x[1])

Prefix(str, n) == SubSeq(str, 1, IF n < Len(str) THEN n ELSE Len(str))

\* HEAD chunk part 1 contents: codec, loop flag, channels, rate, loop start, count
BrstmChunk1s ==
  << [codec |-> 2, loop_flag |-> 1, channel_count |-> 2, sample_rate |-> 44100,
      loop_start |-> <<0, 22050>>, sample_count |-> <<6, 47784>>],
     [codec |-> 5, loop_flag |-> 0, channel_count |-> 1, sample_rate |-> 32000,
      loop_start |-> <<0, 0>>, sample_count |-> <<0, 48001>>],
     [codec |-> 0, loop_flag |-> 1, channel_count |-> 2, sample_rate |-> 0,
      loop_start |-> <<0, 100>>, sample_count |-> <<0, 1000>>] >>

BrstmFullLen == 160

BrstmGood ==
  [kind |-> "BRSTM", magicOk |-> TRUE, bomOk |-> TRUE, chunk_count |-> 2,
   head_offset |-> <<0, 40>>, head_size |-> <<0, 96>>, data |-> "ok",
   headMagicOk |-> TRUE, head1_offset |-> <<0, 24>>, len |-> BrstmFullLen]

BrstmFaultFields ==
  {"magicOk", "bomOk", "chunk_count", "head_offset", "head_size", "data",
   "headMagicOk", "head1_offset", "len"}

BrstmDomain ==
  [kind : {"BRSTM"}, magicOk : BOOLEAN, bomOk : BOOLEAN, chunk_count : {1, 2},
   head_offset : {<<0, 0>>, <<0, 40>>, <<0, 4096>>},
   head_size : {<<0, 0>>, <<0, 16>>, <<0, 32>>, <<0, 96>>},
   data : {"ok", "nooffset", "nosize"},
   headMagicOk : BOOLEAN,
   head1_offset : {<<0, 8>>, <<0, 24>>, <<0, 44>>, <<65535, 65488>>},
   len : {20, 60, 100, BrstmFullLen}]

BrstmVectors ==
  { [fileBE |-> be, c1 |-> c] @@ v :
      be \in BOOLEAN, c \in 1..Len(BrstmChunk1s),
      v \in { w \in BrstmDomain :
                Cardinality({f \in BrstmFaultFields : w[f] # BrstmGood[f]}) <= MaxFaults } }

BrstmFile(v) ==
  LET be == v.fileBE
      c == BrstmChunk1s[v.c1]
      header ==
        (IF v.magicOk THEN <<82, 83, 84, 77>> ELSE <<82, 83, 84, 88>>)
        \o (IF v.bomOk THEN Put16(be, 65279) ELSE <<0, 0>>)
        \o <<1, 0>>
        \o Put32(be, <<0, v.len>>)
        \o Put16(be, 40)
        \o Put16(be, v.chunk_count)
        \o Put32(be, v.head_offset) \o Put32(be, v.head_size)
        \o Put32(be, <<0, 0>>) \o Put32(be, <<0, 0>>)
        \o Put32(be, IF v.data = "nooffset" THEN <<0, 0>> ELSE <<0, 128>>)
        \o Put32(be, IF v.data = "nosize" THEN <<0, 0>> ELSE <<0, 32>>)
      head ==
        (IF v.headMagicOk THEN <<72, 69, 65, 68>> ELSE <<72, 69, 65, 88>>)
        \o Put32(be, v.head_size)
        \o Put32(be, <<256, 0>>) \o Put32(be, v.head1_offset)
        \o Put32(be, <<256, 0>>) \o Put32(be, <<0, 80>>)
        \o Put32(be, <<256, 0>>) \o Put32(be, <<0, 88>>)
      chunk1 ==
        <<c.codec, c.loop_flag, c.channel_count, 0>>
        \o Put16(be, c.sample_rate) \o <<0, 0>>
        \o Put32(be, c.loop_start) \o Put32(be, c.sample_count)
        \o [i \in 1..36 |-> 200 + i]
      rest == [i \in 1..36 |-> 100 + i]
  IN  Prefix(header \o head \o chunk1 \o rest, v.len)

\* canonical (Z64) N64 headers
N64Headers ==
  << N64_Z64_MAGIC \o <<128, 36, 96, 0>> \o <<0, 0, 20, 76>>
       \o <<99, 90, 43, 255, 139, 2, 35, 38>> \o [i \in 1..8 |-> i]
       \o <<83, 85, 80, 69, 82, 32, 77, 65, 82, 73, 79, 32, 54, 52, 32, 32, 32, 32, 32, 32>>
       \o [i \in 1..7 |-> 10 + i] \o <<78, 83, 77, 69>> \o <<0>>,
     N64_Z64_MAGIC \o <<128, 0, 4, 0>> \o <<1, 2, 3, 4>>
       \o <<17, 34, 51, 68, 85, 102, 119, 136>> \o [i \in 1..8 |-> 20 + i]
       \o <<80, 111, 107, 233, 109, 111, 110, 32, 83, 110, 97, 112, 32, 49, 50, 51, 52, 53, 54, 55>>
       \o [i \in 1..7 |-> 30 + i] \o <<78, 7, 70, 80>> \o <<1>> >>

\* the byte order each kind of dump stores a Z64 header in
N64Transform(variant, h) ==
  [i \in 1..Len(h) |->
     LET w == 4 * ((i - 1) \div 4)     \* first byte of the 32-bit word, 0-based
         j == (i - 1) % 4               \* position in the word
     IN  CASE variant = ROM_TYPE_Z64 -> h[i]
           [] variant = ROM_TYPE_V64 -> h[w + <<2, 1, 4, 3>>[j + 1]]
           [] variant = ROM_TYPE_SWAP2 -> h[w + <<3, 4, 1, 2>>[j + 1]]
           [] variant = ROM_TYPE_LE32 -> h[w + <<4, 3, 2, 1>>[j + 1]]]

N64FullLen == 80

N64Vectors ==
  { v \in [kind : {"N64"}, variant : 0..3, header : 1..Len(N64Headers),
           magicOk : BOOLEAN, len : {40, N64FullLen}] :
      (IF v.magicOk THEN 0 ELSE 1) + (IF v.len = N64FullLen THEN 0 ELSE 1) <= MaxFaults }

N64File(v) ==
  LET h == N64Transform(v.variant, N64Headers[v.header])
      body == [i \in 1..16 |-> 60 + i]
  IN  Prefix((IF v.magicOk THEN h ELSE Patch(h, 5, <<1>>)) \o body, v.len)

PsfTagBlocks ==
  << \* no tag section
     <<>>,
     \* the tag magic and nothing else
     <<91, 84, 65, 71, 93>>,
     \* a full set
     <<91, 84, 65, 71, 93, 116, 105, 116, 108, 101, 61, 83, 111, 110, 103,
       10, 97, 114, 116, 105, 115, 116, 61, 77, 101, 10, 121, 101, 97, 114,
       61, 49, 57, 57, 56, 45, 48, 51, 45, 48, 49, 10, 108, 101, 110, 103,
       116, 104, 61, 49, 58, 50, 51, 46, 52, 53, 54, 10>>,
     \* tags none of which is a metadata property
     <<91, 84, 65, 71, 93, 118, 111, 108, 117, 109, 101, 61, 49, 10>>,
     \* key=value lines behind five bytes that are not the tag magic
     <<88, 88, 88, 88, 88, 116, 105, 116, 108, 101, 61, 65, 10>>,
     \* a key twice, in two cases, and a utf8 tag
     <<91, 84, 65, 71, 93, 84, 105, 116, 108, 101, 61, 233, 10, 117, 116,
       102, 56, 61, 49, 10, 116, 105, 116, 108, 101, 61, 90, 10>>,
     \* cp1252 text, seconds.decimal, a five-digit year
     <<91, 84, 65, 71, 93, 116, 105, 116, 108, 101, 61, 233, 10, 108, 101,
       110, 103, 116, 104, 61, 56, 51, 46, 53, 10, 121, 101, 97, 114, 61, 57,
       57, 57, 57, 57, 10>> >>

PsfProgram == [i \in 1..8 |-> 150 + i]

PsfGood ==
  [kind |-> "PSF", magicOk |-> TRUE, version |-> PSF_VERSION_PLAYSTATION,
   reserved |-> 0, prgLen |-> <<0, 8>>, short |-> FALSE]

PsfFaultFields == {"magicOk", "version", "reserved", "prgLen", "short"}

PsfDomain ==
  [kind : {"PSF"}, magicOk : BOOLEAN,
   version : {PSF_VERSION_PLAYSTATION, PSF_VERSION_SNES, 153},
   reserved : {0, 4}, prgLen : {<<0, 8>>, <<65535, 65520>>}, short : BOOLEAN]

PsfVectors ==
  { [tags |-> t] @@ v :
      t \in 1..Len(PsfTagBlocks),
      v \in { w \in PsfDomain :
                Cardinality({f \in PsfFaultFields : w[f] # PsfGood[f]}) <= MaxFaults } }

PsfShortLen == 10

\* the header fields of a PSF file are little-endian
PsfFile(v) ==
  LET header ==
        (IF v.magicOk THEN PSF_MAGIC ELSE <<80, 83, 88>>) \o <<v.version>>
        \o Put32(FALSE, <<0, v.reserved>>) \o Put32(FALSE, v.prgLen)
        \o <<18, 52, 86, 120>>
      whole == header \o [i \in 1..v.reserved |-> 140 + i] \o PsfProgram
               \o PsfTagBlocks[v.tags]
  IN  IF v.short THEN Prefix(whole, PsfShortLen) ELSE whole

Vectors == BrstmVectors \cup N64Vectors \cup PsfVectors

FileOf(v) ==
  CASE v.kind = "BRSTM" -> BrstmFile(v)
    [] v.kind = "N64" -> N64File(v)
    [] v.kind = "PSF" -> PsfFile(v)

(***************************************************************************)
(* WiiUPackage: a Wii U NUS package, read from a directory.  The directory *)
(* (variable dir) says which files can be accessed and opened and what the *)
(* companion parsers (WiiTicket, WiiTMD, CBCReader, WiiUFst) make of them. *)
(***************************************************************************)
HexDigitsLower == <<"0", "1", "2", "3", "4", "5", "6", "7", "8", "9",
                    "a", "b", "c", "d", "e", "f">>

\* a 16-bit value as four hexadecimal digits
Hex04(digits, n) ==
  digits[(n \div 4096) + 1] \o digits[((n \div 256) % 16) + 1]
    \o digits[((n \div 16) % 16) + 1] \o digits[(n % 16) + 1]

\* snprintf(fnbuf, sizeof(fnbuf), "%08x.app" or "%08X.app", content_id)
WiiU_contentName(digits, content_id) ==
  Hex04(digits, content_id[1]) \o Hex04(digits, content_id[2]) \o ".app"

\* a contents table entry: content_id and index as stored, big-endian
WUP_Content_Entry(content_id, index) ==
  [content_id |-> Put32(TRUE, content_id), index |-> Put16(TRUE, index)]

\* FileSystem::access(pathname, R_OK)
FileSystem_access(name) == IF name \in dir.access THEN 0 ELSE -1

\* RpFile(path, FM_OPEN_READ)->isOpen(), for a content file of the package
RpFile_isOpen(name) == name \in dir.files

FstSizeMax == 1048576

WiiUPackagePrivate(path) ==
  [className |-> "WiiUPackage",
   path |-> path # "",       \* path && path[0] != '\0' ? strdup(path) : nullptr
   isValid |-> FALSE,
   ticket |-> FALSE,
   tmd |-> FALSE,
   fst |-> FALSE,
   contentsTable |-> <<>>,
   contentsReaders |-> <<>>, \* 0 is an empty entry, n > 0 the n-th reader made
   readersMade |-> 0,
   fields |-> <<>>,
   \* how often delete was applied to the object each member pointed at
   deleted |-> [ticket |-> 0, tmd |-> 0, fst |-> 0]]

NoPackage == [WiiUPackagePrivate("") EXCEPT !.className = ""]

\* reset(): frees path, ticket, tmd and fst and nulls path, ticket and tmd
WiiU_reset(p) ==
  [p EXCEPT !.path = FALSE, !.ticket = FALSE, !.tmd = FALSE,
            !.deleted = [ticket |-> @.ticket + (IF p.ticket THEN 1 ELSE 0),
                         tmd |-> @.tmd + (IF p.tmd THEN 1 ELSE 0),
                         fst |-> @.fst + (IF p.fst THEN 1 ELSE 0)]]

OpenResult(p, ret, opens) == [d |-> p, ret |-> ret, opens |-> opens]

\* openContentFile() that makes a new reader even when one is cached
OpenContentFileUncached(p, idx) ==
  IF idx >= Len(p.contentsReaders) \/ ~decryption
    THEN OpenResult(p, 0, <<>>)
    ELSE LET lower == WiiU_contentName(HexDigitsLower,
                        be32_to_cpu(HostU32(p.contentsTable[idx + 1].content_id, 0)))
         IN IF ~RpFile_isOpen(lower) \/ ~dir.cbcOk
              THEN OpenResult(p, 0, <<lower>>)
              ELSE OpenResult([p EXCEPT !.contentsReaders[idx + 1] = p.readersMade + 1,
                                        !.readersMade = p.readersMade + 1],
                              p.readersMade + 1, <<lower>>)

WiiU_openContentFile(p, idx) ==
  IF idx >= Len(p.contentsReaders)
    THEN OpenResult(p, 0, <<>>)
  ELSE IF p.contentsReaders[idx + 1] # 0
    THEN OpenResult(p, p.contentsReaders[idx + 1], <<>>)
  ELSE IF ~decryption
    THEN OpenResult(p, 0, <<>>)
  ELSE
    LET entry == p.contentsTable[idx + 1]
        content_id == be32_to_cpu(HostU32(entry.content_id, 0))
        lower == WiiU_contentName(HexDigitsLower, content_id)
        upper == WiiU_contentName(HexDigits, content_id)
        tried == IF RpFile_isOpen(lower) THEN <<lower>> ELSE <<lower, upper>>
        subfile == tried[Len(tried)]
    IN IF ~RpFile_isOpen(subfile)
         THEN OpenResult(p, 0, tried)
       ELSE IF ~dir.cbcOk          \* !cbcReader->isOpen()
         THEN OpenResult(p, 0, tried)
       ELSE OpenResult([p EXCEPT !.contentsReaders[idx + 1] = p.readersMade + 1,
                                 !.readersMade = p.readersMade + 1],
                       p.readersMade + 1, tried)

WiiU_isRomSupported_static == -1

\* the directory detector without its look at the certificate chain
DirSupportedWithoutCert(path) ==
  IF path = "" THEN -1
  ELSE IF FileSystem_access("title.tik") # 0 THEN -1
  ELSE IF FileSystem_access("title.tmd") # 0 THEN -1
  ELSE 0

WiiU_isDirSupported_static(path) ==
  IF path = "" THEN -1
  ELSE IF FileSystem_access("title.tik") # 0 THEN -1
  ELSE IF FileSystem_access("title.tmd") # 0 THEN -1
  ELSE IF FileSystem_access("title.cert") # 0 THEN -1
  ELSE 0

\* subfile->isOpen(), then isValid() and the format version of the parsed file
WiiU_companionLoaded(what) ==
  /\ what # "noopen"
  /\ what \in {"v0", "v1"}
  /\ (IF what = "v1" THEN 1 ELSE 0) = 1

\* the first entry of the contents table whose index is the boot index
WiiU_bootEntry(table) ==
  LET boot_index == cpu_to_be16(dir.bootIndex)
      hits == {i \in 1..Len(table) : HostU16(table[i].index, 0) = boot_index}
  IN IF hits = {} THEN 0 ELSE CHOOSE i \in hits : \A j \in hits : i <= j

\* WiiUPackage(const char *path): the private data and the files opened
WiiU_ctor(path) ==
  LET d0 == WiiUPackagePrivate(path)
      d1 == [d0 EXCEPT !.isValid = (WiiU_isDirSupported_static(path) >= 0)]
      d2 == [d1 EXCEPT !.ticket = TRUE]
      d3 == [d2 EXCEPT !.tmd = TRUE]
      table == dir.contentsTable
      d4 == [d3 EXCEPT !.contentsTable = table]
      d5 == [d4 EXCEPT !.contentsReaders = [i \in 1..Len(table) |-> 0]]
      boot == WiiU_bootEntry(table)
      fstReader == IF boot = 0 THEN OpenResult(d5, 0, <<>>)
                               ELSE WiiU_openContentFile(d5, boot - 1)
      d6 == fstReader.d
      fst_size == dir.fstSize
      size == IF dir.fstShort THEN fst_size - 1 ELSE fst_size
      companions == <<"title.tik", "title.tmd">>
      opened == companions \o fstReader.opens
  IN IF ~d0.path THEN OpenResult(WiiU_reset(d0), 0, <<>>)
     ELSE IF ~d1.isValid THEN OpenResult(WiiU_reset(d1), 0, <<>>)
     ELSE IF ~WiiU_companionLoaded(dir.tik)
       THEN OpenResult(WiiU_reset(d1), 0, <<"title.tik">>)
     ELSE IF ~WiiU_companionLoaded(dir.tmd)
       THEN OpenResult(WiiU_reset(d2), 0, companions)
     ELSE IF decryption /\ ~dir.keyOk          \* decryptTitleKey() != 0
       THEN OpenResult(WiiU_reset(d3), 0, companions)
     ELSE IF table = <<>> THEN OpenResult(WiiU_reset(d4), 0, companions)
     ELSE IF fstReader.ret = 0 THEN OpenResult(WiiU_reset(d6), 0, opened)
     ELSE IF fst_size <= 0 \/ fst_size > FstSizeMax
       THEN OpenResult(WiiU_reset(d6), 0, opened)
     ELSE IF size # fst_size THEN OpenResult(WiiU_reset(d6), 0, opened)
     ELSE IF ~dir.fstOk THEN OpenResult(WiiU_reset(d6), 0, opened)
     ELSE OpenResult(d6, 0, opened)

\* WiiUPackage(const IRpFilePtr&): packages are not read from files
WiiU_ctorFile == WiiUPackagePrivate("")

WiiU_sysNames == <<"Nintendo Wii U", "Wii U", "Wii U", NULL>>

WiiU_systemName(p, type) ==
  IF ~p.isValid \/ ~isSystemNameTypeValid(type)
    THEN NULL
    ELSE WiiU_sysNames[(type % 4) + 1]

WiiU_loadFieldData(p) ==
  IF p.fields # <<>> THEN 0
  ELSE IF ~p.path THEN -EBADF
  ELSE IF ~p.isValid THEN -EIO
  ELSE Len(p.fields)

(***************************************************************************)
(* Package directories: a complete package, and the directories that       *)
(* deviate from it in at most MaxFaults places.                            *)
(***************************************************************************)
WiiUTables ==
  << <<>>,
     <<WUP_Content_Entry(<<0, 10>>, 0), WUP_Content_Entry(<<0, 1>>, 1)>>,
     <<WUP_Content_Entry(<<0, 1>>, 1), WUP_Content_Entry(<<43981, 4847>>, 0),
       WUP_Content_Entry(<<0, 10>>, 0)>> >>

CompanionFiles == {"title.tik", "title.tmd", "title.cert"}

WiiUDirGood ==
  [access |-> CompanionFiles,
   tik |-> "v1",
   tmd |-> "v1",
   keyOk |-> TRUE,
   contentsTable |-> WiiUTables[2],
   bootIndex |-> 0,
   files |-> {"0000000a.app", "00000001.app", "abcd12ef.app"},
   cbcOk |-> TRUE,
   fstSize |-> 64,
   fstShort |-> FALSE,
   fstOk |-> TRUE]

WiiUDirFaultFields == DOMAIN WiiUDirGood

WiiUDirDomain ==
  [access : SUBSET CompanionFiles,
   tik : {"noopen", "invalid", "v0", "v1"},
   tmd : {"noopen", "invalid", "v0", "v1"},
   keyOk : BOOLEAN,
   contentsTable : {WiiUTables[i] : i \in 1..Len(WiiUTables)},
   bootIndex : {0, 1, 7},
   files : {{"0000000a.app", "00000001.app", "abcd12ef.app"},
            {"0000000A.app", "00000001.app", "ABCD12EF.app"},
            {"0000000a.app"}, {"00000001.app"}, {}},
   cbcOk : BOOLEAN,
   fstSize : {-1, 0, 64, FstSizeMax, FstSizeMax + 1},
   fstShort : BOOLEAN,
   fstOk : BOOLEAN]

WiiUDirs ==
  {v \in WiiUDirDomain :
     Cardinality({f \in WiiUDirFaultFields : v[f] # WiiUDirGood[f]}) <= MaxFaults}

(***************************************************************************)
(* The system: a byte source, and one RomData instance over it.            *)
(***************************************************************************)
NoInstance == RomDataPrivate("", 0, FALSE)

NoWCall == [op |-> "", arg |-> 0, ret |-> 0, name |-> NULL, opens |-> <<>>,
            before |-> NoPackage]

NoWiiU ==
  /\ decryption = FALSE
  /\ dir = WiiUDirGood
  /\ pkg = NoPackage
  /\ wcall = NoWCall

Init ==
  /\ hostBE \in BOOLEAN
  /\ canon \in Vectors
  /\ fileData = FileOf(canon)
  /\ fileOpen = TRUE
  /\ refCount = 1
  /\ unrefs = 0
  /\ d = NoInstance
  /\ calls = <<>>
  /\ reads = <<>>
  /\ alive = TRUE
  /\ attached = "null"
  /\ NoWiiU

Live == alive /\ d.className \in {"BRSTM", "PSF", "N64"}

\* one entry of the call log: the operation, its argument, what it returned,
\* and the FieldList and MetadataSet it left behind
Call(op, arg, ret, dd) ==
  [op |-> op, arg |-> arg, ret |-> ret, fields |-> dd.fields, metaData |-> dd.metaData]

\* new RomData subclass over the file: RomDataPrivate takes a reference when
\* it is given a file, the constructor body may give it back
Constructed(file, s) ==
  /\ d' = s.d
  /\ reads' = s.reads
  /\ unrefs' = unrefs + s.unrefs
  /\ refCount' = refCount + (IF file THEN 1 ELSE 0) - s.unrefs
  /\ calls' = <<Call("ctor", 0, 0, s.d)>>
  /\ attached' = IF ~file THEN "null" ELSE IF fileOpen THEN "open" ELSE "closed"
  /\ UNCHANGED <<hostBE, fileData, fileOpen, alive, canon,
                 decryption, dir, pkg, wcall>>

ConstructBRSTM ==
  /\ alive /\ d = NoInstance
  /\ \E file \in BOOLEAN : Constructed(file, BRSTM_ctor(file))

ConstructN64 ==
  /\ alive /\ d = NoInstance
  /\ \E file \in BOOLEAN : Constructed(file, N64_ctor(file))

ConstructPSF ==
  /\ alive /\ d = NoInstance
  /\ \E file \in BOOLEAN : Constructed(file, PSF_ctor(file))

\* the run of calls of one accessor, at most the latest two
Called(op, arg, ret, dd) ==
  IF calls # <<>> /\ calls[Len(calls)].op = op /\ op # "systemName"
    THEN <<calls[Len(calls)], Call(op, arg, ret, dd)>>
    ELSE <<Call(op, arg, ret, dd)>>

LoadFieldData ==
  /\ Live
  /\ LET o == CASE d.className = "BRSTM" -> BRSTM_loadFieldData(d)
                [] d.className = "N64" -> N64_loadFieldData(d)
                [] d.className = "PSF" -> PSF_loadFieldData(d)
     IN  /\ d' = o.d
         /\ reads' = o.reads
         /\ calls' = Called("loadFieldData", 0, o.ret, o.d)
  /\ UNCHANGED <<hostBE, fileData, fileOpen, refCount, unrefs, alive, canon, attached,
                 decryption, dir, pkg, wcall>>

LoadMetaData ==
  /\ Live
  /\ \E o \in (CASE d.className = "BRSTM" -> BRSTM_loadMetaData(d)
                 [] d.className = "N64" -> N64_loadMetaData(d)
                 [] d.className = "PSF" -> PSF_loadMetaData(d)) :
         /\ d' = o.d
         /\ reads' = o.reads
         /\ alive' = o.alive
         /\ calls' = IF o.alive THEN Called("loadMetaData", 0, o.ret, o.d) ELSE calls
  /\ UNCHANGED <<hostBE, fileData, fileOpen, refCount, unrefs, canon, attached,
                 decryption, dir, pkg, wcall>>

SystemName ==
  /\ Live
  /\ \E type \in 0..MaxSysNameType :
       calls' = Called("systemName", type,
                       CASE d.className = "BRSTM" -> BRSTM_systemName(d, type)
                         [] d.className = "N64" -> N64_systemName(d, type)
                         [] d.className = "PSF" -> PSF_systemName(d, type),
                       d)
  /\ reads' = <<>>
  /\ UNCHANGED <<hostBE, fileData, fileOpen, refCount, unrefs, d, alive, canon, attached,
                 decryption, dir, pkg, wcall>>

\* RomData::close(): the instance gives its reference back
Close ==
  /\ Live
  /\ d.file
  /\ d' = [d EXCEPT !.file = FALSE]
  /\ unrefs' = unrefs + 1
  /\ refCount' = refCount - 1
  /\ calls' = <<>>
  /\ reads' = <<>>
  /\ UNCHANGED <<hostBE, fileData, fileOpen, alive, canon, attached,
                 decryption, dir, pkg, wcall>>

\* another holder of the byte source closes it
CloseSource ==
  /\ alive
  /\ fileOpen
  /\ fileOpen' = FALSE
  /\ calls' = <<>>
  /\ reads' = <<>>
  /\ UNCHANGED <<hostBE, fileData, refCount, unrefs, d, alive, canon, attached,
                 decryption, dir, pkg, wcall>>

\* the instance is destroyed: ~RomDataPrivate gives back a reference still held
Destroy ==
  /\ Live
  /\ d' = [d EXCEPT !.className = "destroyed", !.file = FALSE]
  /\ unrefs' = unrefs + (IF d.file THEN 1 ELSE 0)
  /\ refCount' = refCount - (IF d.file THEN 1 ELSE 0)
  /\ calls' = <<>>
  /\ reads' = <<>>
  /\ UNCHANGED <<hostBE, fileData, fileOpen, alive, canon, attached,
                 decryption, dir, pkg, wcall>>

Next ==
  \/ ConstructBRSTM
  \/ ConstructN64
  \/ ConstructPSF
  \/ LoadFieldData
  \/ LoadMetaData
  \/ SystemName
  \/ Close
  \/ CloseSource
  \/ Destroy

Spec == Init /\ [][Next]_vars

(***************************************************************************)
(* The detectors on their own: isRomSupported_static is a static function  *)
(* the caller hands a DetectInfo of its own making.                        *)
(***************************************************************************)
DetectSizes == {0, 8, 16, 39, 40, 63, 64, 160}
DetectAddrs == {0, 4}

\* the DetectInfo a caller fills in from the first bytes of the byte source
DetectInfos ==
  { DetectInfo(addr, hasData, Prefix(fileData, size)) :
      addr \in DetectAddrs, hasData \in BOOLEAN, size \in DetectSizes }

\* a detector is a function of its argument alone: one call per run shows
\* all it can do
Detected(op, info, ret) ==
  /\ calls = <<>>
  /\ calls' = <<[op |-> op, arg |-> info, ret |-> ret]>>
  /\ UNCHANGED <<hostBE, fileData, fileOpen, refCount, unrefs, d, reads, alive,
                 canon, attached,
                 decryption, dir, pkg, wcall>>

DetectBRSTM ==
  \E info \in DetectInfos :
    Detected("BRSTM::isRomSupported_static", info, BRSTM_isRomSupported_static(info))

DetectN64 ==
  \E info \in DetectInfos :
    Detected("N64::isRomSupported_static", info, N64_isRomSupported_static(info))

DetectPSF ==
  \E info \in DetectInfos :
    Detected("PSF::isRomSupported_static", info, PSF_isRomSupported_static(info))

NextDetect ==
  \/ DetectBRSTM
  \/ DetectN64
  \/ DetectPSF

SpecDetect == Init /\ [][NextDetect]_vars

(***************************************************************************)
(* The detectors called again and again, before and after an instance is   *)
(* made over the same byte source.  The log keeps the latest two calls.     *)
(***************************************************************************)
RedetectVectors ==
  { v \in Vectors :
      \/ v.kind = "BRSTM" /\ v.c1 = 1 /\ (\A f \in BrstmFaultFields : v[f] = BrstmGood[f])
      \/ v.kind = "N64" /\ v.header = 1 /\ v.magicOk /\ v.len = N64FullLen
      \/ v.kind = "PSF" /\ v.tags = 1 /\ (\A f \in PsfFaultFields : v[f] = PsfGood[f]) }

RedetectInfos ==
  { DetectInfo(addr, hasData, Prefix(fileData, size)) :
      addr \in DetectAddrs, hasData \in BOOLEAN, size \in {0, 40, 160} }

InitRedetect == Init /\ canon \in RedetectVectors

DetectorOps ==
  {"BRSTM::isRomSupported_static", "N64::isRomSupported_static",
   "PSF::isRomSupported_static"}

Redetected(op, info, ret) ==
  /\ calls' = (IF calls = <<>> THEN <<>> ELSE <<calls[Len(calls)]>>)
                 \o <<[op |-> op, arg |-> info, ret |-> ret]>>
  /\ UNCHANGED <<hostBE, fileData, fileOpen, refCount, unrefs, d, reads, alive,
                 canon, attached,
                 decryption, dir, pkg, wcall>>

RedetectBRSTM ==
  \E info \in RedetectInfos :
    Redetected("BRSTM::isRomSupported_static", info, BRSTM_isRomSupported_static(info))

RedetectN64 ==
  \E info \in RedetectInfos :
    Redetected("N64::isRomSupported_static", info, N64_isRomSupported_static(info))

RedetectPSF ==
  \E info \in RedetectInfos :
    Redetected("PSF::isRomSupported_static", info, PSF_isRomSupported_static(info))

NextRedetect ==
  \/ RedetectBRSTM
  \/ RedetectN64
  \/ RedetectPSF
  \/ ConstructBRSTM
  \/ ConstructN64
  \/ ConstructPSF

SpecRedetect == InitRedetect /\ [][NextRedetect]_vars

(***************************************************************************)
(* A WiiUPackage instance over a package directory.  openContentFile() is  *)
(* exercised after construction wherever it is defined: with decryption    *)
(* built in, a call that has to open a file needs the path.                *)
(***************************************************************************)
MaxContentIdx == 3

InitWiiU ==
  /\ hostBE \in BOOLEAN
  /\ canon = [tags |-> 1] @@ PsfGood
  /\ fileData = FileOf(canon)
  /\ fileOpen = TRUE
  /\ refCount = 1
  /\ unrefs = 0
  /\ d = NoInstance
  /\ calls = <<>>
  /\ reads = <<>>
  /\ alive = TRUE
  /\ attached = "null"
  /\ decryption \in BOOLEAN
  /\ dir \in WiiUDirs
  /\ pkg = NoPackage
  /\ wcall = NoWCall

WCalled(op, arg, res, name) ==
  /\ pkg' = res.d
  /\ wcall' = [op |-> op, arg |-> arg, ret |-> res.ret, name |-> name,
               opens |-> res.opens, before |-> pkg]
  /\ UNCHANGED <<hostBE, fileData, fileOpen, refCount, unrefs, d, calls, reads,
                 alive, canon, attached, decryption, dir>>

WConstruct ==
  /\ pkg.className = ""
  /\ \E path \in {"", "pkg"} :
       WCalled("ctor", IF path = "" THEN 0 ELSE 1, WiiU_ctor(path), NULL)

WConstructFromFile ==
  /\ pkg.className = ""
  /\ WCalled("ctorFile", 0, OpenResult(WiiU_ctorFile, 0, <<>>), NULL)

WiiU_openDefined(p, idx) ==
  IF ~decryption THEN TRUE
  ELSE IF idx >= Len(p.contentsReaders) THEN TRUE
  ELSE IF p.contentsReaders[idx + 1] # 0 THEN TRUE
  ELSE p.path

WOpenContentFile ==
  /\ pkg.className = "WiiUPackage"
  /\ \E idx \in 0..MaxContentIdx :
       /\ WiiU_openDefined(pkg, idx)
       /\ WCalled("openContentFile", idx, WiiU_openContentFile(pkg, idx), NULL)

WSystemName ==
  /\ pkg.className = "WiiUPackage"
  /\ \E type \in 0..MaxSysNameType :
       WCalled("systemName", type, OpenResult(pkg, 0, <<>>), WiiU_systemName(pkg, type))

WLoadFieldData ==
  /\ pkg.className = "WiiUPackage"
  /\ WCalled("loadFieldData", 0, OpenResult(pkg, WiiU_loadFieldData(pkg), <<>>), NULL)

WDestroy ==
  /\ pkg.className = "WiiUPackage"
  /\ WCalled("dtor", 0,
             OpenResult([WiiU_reset(pkg) EXCEPT !.className = "destroyed"], 0, <<>>),
             NULL)

\* the static detectors need no instance and leave the one there is alone
WIsDirSupported ==
  \E path \in {"", "pkg"} :
    WCalled("isDirSupported_static", path,
            OpenResult(pkg, WiiU_isDirSupported_static(path), <<>>), NULL)

WIsRomSupported ==
  \E info \in DetectInfos :
    WCalled("isRomSupported_static", info,
            OpenResult(pkg, WiiU_isRomSupported_static, <<>>), NULL)

NextWiiU ==
  \/ WIsDirSupported
  \/ WIsRomSupported
  \/ WConstruct
  \/ WConstructFromFile
  \/ WOpenContentFile
  \/ WSystemName
  \/ WLoadFieldData
  \/ WDestroy

SpecWiiU == InitWiiU /\ [][NextWiiU]_vars

(***************************************************************************)
(* The pure functions, applied to inputs drawn from bounded sets.  No      *)
(* instance, byte source or package takes part.                            *)
(***************************************************************************)
Idle ==
  /\ hostBE = FALSE
  /\ canon = [tags |-> 1] @@ PsfGood
  /\ fileData = FileOf(canon)
  /\ fileOpen = TRUE
  /\ refCount = 1
  /\ unrefs = 0
  /\ d = NoInstance
  /\ reads = <<>>
  /\ alive = TRUE
  /\ attached = "null"
  /\ NoWiiU

Applied(op, ret, lives) ==
  /\ calls # <<>>
  /\ calls[1].op = "input"
  /\ calls' = <<[calls[1] EXCEPT !.op = op, !.ret = ret]>>
  /\ alive' = lives
  /\ UNCHANGED <<hostBE, fileData, fileOpen, refCount, unrefs, d, reads, canon,
                 attached, decryption, dir, pkg, wcall>>

MaxTimeSample == 120

TimeSamples ==
  {<<0, s>> : s \in 0..MaxTimeSample}
    \cup {<<0, 23373>>, <<0, 44100>>, <<0, 44101>>, <<40, 24600>>, <<65535, 65535>>}

TimeRates == {0, 1, 7, 60, 100, 44100, 65535}

InitTime ==
  /\ Idle
  /\ \E sample \in TimeSamples, rate \in TimeRates :
       calls = <<[op |-> "input", sample |-> sample, rate |-> rate, ret |-> <<>>]>>

ApplyFormatSampleAsTime ==
  Applied("formatSampleAsTime",
          formatSampleAsTime(calls[1].sample, calls[1].rate), TRUE)

\* with rate 0 the modulo is undefined: a trap, or any value
ApplyConvSampleToMs ==
  IF calls # <<>> /\ calls[1].op = "input" /\ calls[1].rate = 0
    THEN \/ Applied("convSampleToMs", <<>>, FALSE)
         \/ \E v \in UBValues : Applied("convSampleToMs", v, TRUE)
    ELSE Applied("convSampleToMs",
                 convSampleToMs(calls[1].sample, calls[1].rate), TRUE)

NextTime ==
  \/ ApplyFormatSampleAsTime
  \/ ApplyConvSampleToMs

SpecTime == InitTime /\ [][NextTime]_vars

(***************************************************************************)
(* lengthToMs over length strings: strings put together from hours,        *)
(* minutes, seconds, a separator and fraction digits (-1: the part is      *)
(* absent), and a few strings of no such form.                             *)
(***************************************************************************)
\* a number below 100 in decimal, with a leading zero when padded
TwoDigits(n, pad) ==
  IF n < 10 THEN (IF pad THEN <<48>> ELSE <<>>) \o <<48 + n>>
            ELSE <<48 + (n \div 10), 48 + (n % 10)>>

LengthFractions ==
  {<<53>>, <<48>>, <<52, 53>>, <<48, 53>>, <<52, 53, 54>>, <<48, 48, 53>>,
   <<57, 57, 57>>, <<52, 53, 54, 55>>, <<48, 48, 48, 52>>, <<49, 50, 51, 52, 53>>}

LengthParts ==
  {p \in [h : {-1, 0, 1, 12}, m : {-1, 0, 1, 2, 23, 59}, s : {0, 3, 23, 83},
          sep : {0, 44, 46}, f : LengthFractions \cup {<<>>}, pad : BOOLEAN] :
     /\ p.h # -1 => p.m # -1
     /\ p.sep = 0 <=> p.f = <<>>}

LengthString(p) ==
  (IF p.h # -1 THEN TwoDigits(p.h, FALSE) \o <<58>> ELSE <<>>)
    \o (IF p.m # -1 THEN TwoDigits(p.m, p.pad /\ p.h # -1) \o <<58>> ELSE <<>>)
    \o TwoDigits(p.s, p.pad /\ p.m # -1)
    \o (IF p.sep # 0 THEN <<p.sep>> \o p.f ELSE <<>>)

\* "abc", "", ":", "1:", ".5", "1.", "x1:23", "1:23x"
OtherLengths ==
  {<<97, 98, 99>>, <<>>, <<58>>, <<49, 58>>, <<46, 53>>, <<49, 46>>,
   <<120, 49, 58, 50, 51>>, <<49, 58, 50, 51, 120>>}

InitLength ==
  /\ Idle
  /\ \/ \E p \in LengthParts :
          calls = <<[op |-> "input", kind |-> "parts", parts |-> p,
                     str |-> LengthString(p), ret |-> <<>>]>>
     \/ \E str \in OtherLengths :
          calls = <<[op |-> "input", kind |-> "other",
                     parts |-> [h |-> -1, m |-> -1, s |-> 0, sep |-> 0, f |-> <<>>,
                                pad |-> FALSE],
                     str |-> str, ret |-> <<>>]>>

ApplyLengthToMs == Applied("lengthToMs", PSF_lengthToMs(calls[1].str), TRUE)

\* the properties loadMetaData makes of a tag map with this length tag
ApplyLengthProps ==
  /\ calls # <<>> /\ calls[1].str # <<>>
  /\ Applied("props",
             PSF_props([k \in {K_title, K_length} |->
                          IF k = K_length THEN calls[1].str ELSE <<84>>]),
             TRUE)

\* the properties loadMetaData makes of a tag map without a length tag
ApplyPropsNoLength ==
  Applied("propsNoLength", PSF_props([k \in {K_title} |-> <<84>>]), TRUE)

NextLength ==
  \/ ApplyLengthToMs
  \/ ApplyLengthProps
  \/ ApplyPropsNoLength

SpecLength == InitLength /\ [][NextLength]_vars

(***************************************************************************)
(* The metadata properties of a PSF tag map that holds a year tag put      *)
(* together from leading blanks, a sign, digits and a rest, or holds none. *)
(***************************************************************************)
YearParts ==
  [missing : {FALSE}, sp : {<<>>, <<32>>}, sign : {<<>>, <<43>>, <<45>>},
   digits : {<<48>>, <<53>>, <<49, 50>>, <<49, 57, 57>>, <<49, 57, 57, 56>>,
             <<48, 48, 48, 48>>, <<57, 57, 57, 57, 57>>},
   rest : {<<>>, <<45, 48, 51, 45, 48, 49>>, <<47, 48, 51>>, <<120>>, <<32>>}]

\* no year tag; the year tags "", "x", "-", "year"
OtherYears ==
  {[missing |-> m, sp |-> <<>>, sign |-> <<>>, digits |-> <<>>, rest |-> r] :
     m \in BOOLEAN, r \in {<<>>, <<120>>, <<45>>, <<121, 101, 97, 114>>}}

YearString(p) == p.sp \o p.sign \o p.digits \o p.rest

InitYear ==
  /\ Idle
  /\ \E p \in YearParts \cup OtherYears :
       calls = <<[op |-> "input", parts |-> p, str |-> YearString(p), ret |-> <<>>]>>

\* the properties loadMetaData makes of the tag map
ApplyProps ==
  Applied("props",
          PSF_props(IF calls[1].parts.missing
                      THEN [k \in {K_title} |-> <<84>>]
                      ELSE [k \in {K_title, K_year} |->
                              IF k = K_year THEN calls[1].str ELSE <<84>>]),
          TRUE)

NextYear == ApplyProps

SpecYear == InitYear /\ [][NextYear]_vars

(***************************************************************************)
(* The tag region parseTags allocates, over file sizes and tag addresses.  *)
(***************************************************************************)
TagFileSizes ==
  {0, 16, 20, 21, 22, 100, 4096, 16384, 16405, 16406, 20000, 65536, 1048576}

TagAddrs == {0, 16, 17, 24, 4096, 16384, 65536, 2097152}

InitTagRegion ==
  /\ Idle
  /\ \E size \in TagFileSizes, tag_addr \in TagAddrs :
       calls = <<[op |-> "input", size |-> size, tag_addr |-> tag_addr, ret |-> <<>>]>>

ApplyTagRegion ==
  Applied("parseTags", PSF_tagRegion(calls[1].size, calls[1].tag_addr), TRUE)

NextTagRegion == ApplyTagRegion

SpecTagRegion == InitTagRegion /\ [][NextTagRegion]_vars

(***************************************************************************)
(* The tag map parseTags makes of a tag block: up to MaxTagLines lines     *)
(* from a pool, joined by newlines, the last one with or without its       *)
(* newline.                                                                *)
(***************************************************************************)
MaxTagLines == 3

TagLine(key, eq, val) == [key |-> key, eq |-> eq, val |-> val]

\* "title=\xe9", "Title=Z", "utf8=1", "UTF8=x", "utf8=", "artist=Me\xe8",
\* "", "novalue", "=x"
TagLinePool ==
  << TagLine(<<116, 105, 116, 108, 101>>, TRUE, <<233>>),
     TagLine(<<84, 105, 116, 108, 101>>, TRUE, <<90>>),
     TagLine(<<117, 116, 102, 56>>, TRUE, <<49>>),
     TagLine(<<85, 84, 70, 56>>, TRUE, <<120>>),
     TagLine(<<117, 116, 102, 56>>, TRUE, <<>>),
     TagLine(<<97, 114, 116, 105, 115, 116>>, TRUE, <<77, 101, 232>>),
     TagLine(<<>>, FALSE, <<>>),
     TagLine(<<110, 111, 118, 97, 108, 117, 101>>, FALSE, <<>>),
     TagLine(<<>>, TRUE, <<120>>) >>

TagLineBytes(l) == l.key \o (IF l.eq THEN <<61>> \o l.val ELSE <<>>)

RECURSIVE TagBlockBytes(_, _)
TagBlockBytes(lines, lastNewline) ==
  IF lines = <<>> THEN <<>>
  ELSE TagLineBytes(TagLinePool[Head(lines)])
         \o (IF Len(lines) > 1 \/ lastNewline THEN <<10>> ELSE <<>>)
         \o TagBlockBytes(Tail(lines), lastNewline)

TagBlocks == UNION {[1..n -> 1..Len(TagLinePool)] : n \in 0..MaxTagLines}

InitTags ==
  /\ Idle
  /\ \E lines \in TagBlocks, lastNewline \in BOOLEAN :
       calls = <<[op |-> "input", lines |-> lines,
                  data |-> TagBlockBytes(lines, lastNewline), ret |-> <<>>]>>

\* the line loop and the conversion of parseTags, on the tag data read
ApplyParseTags ==
  Applied("parseTags",
          PSF_convertTags(PSF_parseLines(calls[1].data, 0, NoTags, FALSE)), TRUE)

NextTags == ApplyParseTags

SpecTags == InitTags /\ [][NextTags]_vars

(***************************************************************************)
(* RomData_decl.hpp: loadInternalImage() of a class with a single internal *)
(* image type, made of ASSERT_loadInternalImage and                        *)
(* ROMDATA_loadInternalImage_single.  An image is a number, 0 the empty    *)
(* pointer; a macro either returns from the function or falls through.     *)
(***************************************************************************)
ERANGE == 34
ENOENT == 2
IMG_INT_MIN == 0
IMG_INT_MAX == 3

Returns(ret, pImage) == [returned |-> TRUE, ret |-> ret, pImage |-> pImage]
FallsThrough(pImage) == [returned |-> FALSE, ret |-> 0, pImage |-> pImage]

ASSERT_loadInternalImage(imageType, pImage) ==
  IF imageType < IMG_INT_MIN \/ imageType > IMG_INT_MAX
    THEN Returns(-ERANGE, 0)
    ELSE FallsThrough(pImage)

\* the single-image macro with the source checked before the cache
LoadSingleSourceFirst(imageType, pImage, ourImageType, file, isValid, romType, imgCache, func) ==
  IF imageType # ourImageType THEN Returns(-ENOENT, 0)
  ELSE IF ~file THEN Returns(-EBADF, 0)
  ELSE IF imgCache # 0 THEN Returns(0, imgCache)
  ELSE IF ~isValid \/ romType < 0 THEN Returns(-EIO, 0)
  ELSE Returns(IF func # 0 THEN 0 ELSE -EIO, func)

\* func is the image the loader function returns
ROMDATA_loadInternalImage_single(imageType, pImage, ourImageType, file, isValid, romType, imgCache, func) ==
  IF imageType # ourImageType THEN Returns(-ENOENT, 0)
  ELSE IF imgCache # 0 THEN Returns(0, imgCache)
  ELSE IF ~file THEN Returns(-EBADF, 0)
  ELSE IF ~isValid \/ romType < 0 THEN Returns(-EIO, 0)
  ELSE Returns(IF func # 0 THEN 0 ELSE -EIO, func)

loadInternalImage(in) ==
  LET a == ASSERT_loadInternalImage(in.imageType, in.pImage)
  IN  IF a.returned THEN a
      ELSE ROMDATA_loadInternalImage_single(in.imageType, a.pImage, in.ourImageType,
                                            in.file, in.isValid, in.romType,
                                            in.imgCache, in.func)

ImageInputs ==
  [imageType : (IMG_INT_MIN - 1)..(IMG_INT_MAX + 2),
   ourImageType : {IMG_INT_MIN, IMG_INT_MAX},
   pImage : {0, 3}, file : BOOLEAN, isValid : BOOLEAN, romType : {-1, 0, 2},
   imgCache : {0, 1}, func : {0, 2}]

InitImage ==
  /\ Idle
  /\ \E in \in ImageInputs : calls = <<[op |-> "input", in |-> in, ret |-> <<>>]>>

ApplyLoadInternalImage ==
  Applied("loadInternalImage", loadInternalImage(calls[1].in), TRUE)

NextImage == ApplyLoadInternalImage

SpecImage == InitImage /\ [][NextImage]_vars

(***************************************************************************)
(* Properties                                                              *)
(***************************************************************************)
Classes == {"BRSTM", "PSF", "N64"}
Loads == {"loadFieldData", "loadMetaData"}

\* the constructor has just returned
JustConstructed == calls # <<>> /\ calls[1].op = "ctor"

\* the latest call
LastCall == calls[Len(calls)]

\* C1: at the end of construction over a byte source, isValid is false
\* exactly when the instance holds no reference to the source, and a
\* failed construction has released the reference it took exactly once;
\* no later operation releases it a second time.
C1_CtorReleasesOnce ==
  /\ (JustConstructed /\ attached # "null") =>
       /\ d.className \in Classes
       /\ d.isValid <=> d.file
       /\ unrefs = (IF d.isValid THEN 0 ELSE 1)
       /\ refCount = (IF d.isValid THEN 2 ELSE 1)
  /\ (d.className # "" /\ attached # "null") =>
       /\ unrefs <= 1
       /\ ~d.isValid => (unrefs = 1 /\ refCount = 1 /\ ~d.file)

\* a BRSTM constructor that failed at the HEAD chunk's magic, after its
\* second read, over an open source
C1_Witness ==
  /\ JustConstructed /\ attached = "open"
  /\ d.className = "BRSTM" /\ canon.kind = "BRSTM" /\ ~canon.headMagicOk
  /\ Len(reads) = 2 /\ reads[2].got = SizeofHEADHeader
  /\ ~d.isValid /\ ~d.file /\ unrefs = 1

\* C2: an instance whose validity flag is false has an empty FieldList and
\* no MetadataSet, whatever has been called on it; each loadFieldData and
\* loadMetaData call on it returned a negative code and each systemName
\* call returned null.
C2_InvalidStaysEmpty ==
  (d.className \in Classes /\ ~d.isValid) =>
    /\ d.fields = <<>>
    /\ ~d.metaData.present
    /\ calls # <<>> =>
         /\ LastCall.op \in Loads => LastCall.ret < 0
         /\ LastCall.op = "systemName" => LastCall.ret = NULL
         /\ LastCall.fields = <<>> /\ ~LastCall.metaData.present

\* an invalid N64 instance over an open source asked for its long name
C2_Witness ==
  /\ d.className = "N64" /\ ~d.isValid /\ attached = "open"
  /\ calls # <<>> /\ LastCall.op = "systemName" /\ LastCall.arg = 0
  /\ LastCall.ret = NULL

\* what the test vector says the file's HEAD fields are
C3_Rejected ==
  \/ canon.head_offset = <<0, 0>>
  \/ U32LtSmall(canon.head_size, 32)
  \/ U32LtSmall(canon.head1_offset, 24)

\* the offset the rejected field would have sent the next seekAndRead to
C3_RejectedOffset ==
  IF canon.head_offset = <<0, 0>> \/ U32LtSmall(canon.head_size, 32)
    THEN canon.head_offset
    ELSE U32Add(U32Add(canon.head_offset, <<0, 8>>), canon.head1_offset)

\* C3: a BRSTM file whose HEAD offset is 0, whose HEAD size is below the 32
\* bytes of the HEAD header, or whose chunk-1 sub-offset is below 24, gives
\* an invalid instance, and the constructor has issued no seekAndRead at
\* the offset the rejected field leads to.
C3_BadHeadRejected ==
  (JustConstructed /\ d.className = "BRSTM" /\ canon.kind = "BRSTM"
     /\ attached # "null" /\ C3_Rejected) =>
    /\ ~d.isValid
    /\ ~d.file
    /\ \A i \in 1..Len(reads) :
         reads[i].op = "seekAndRead" => reads[i].off # C3_RejectedOffset

\* a file that is well-formed but for a chunk-1 sub-offset of 8: the HEAD
\* header has been read, the sub-offset check has stopped the constructor
C3_Witness ==
  /\ JustConstructed /\ d.className = "BRSTM" /\ canon.kind = "BRSTM"
  /\ attached = "open"
  /\ canon.head1_offset = <<0, 8>>
  /\ Len(reads) = 2 /\ reads[2].op = "seekAndRead" /\ reads[2].got = SizeofHEADHeader
  /\ ~d.isValid

\* C4: when the BRSTM constructor has issued the read of HEAD chunk part 1,
\* the bytes read, from the read's offset to that offset plus the size of
\* the chunk-1 structure, lie inside the HEAD chunk, from head offset to
\* head offset plus head size.
C4_Chunk1InsideHead ==
  (JustConstructed /\ d.className = "BRSTM" /\ Len(reads) = 3) =>
    /\ WideLe(BRSTM_head_offset(d), reads[3].off)
    /\ WideLe(WideAdd(reads[3].off, <<0, reads[3].len>>),
              WideAdd(BRSTM_head_offset(d), BRSTM_head_size(d)))

\* the header bytes as the BRSTM format lays them out, read without
\* reference to the host
C5_ChunkCountOf(p) ==
  IF <<p[5], p[6]>> = <<254, 255>> THEN 256 * p[15] + p[16] ELSE 256 * p[16] + p[15]

C5_NonZero(p, off) == \E i \in 1..4 : p[off + i] # 0

C5_Supported(info) ==
  /\ info.hasData /\ info.addr = 0 /\ info.size >= 40
  /\ SubSeq(info.pData, 1, 4) = <<82, 83, 84, 77>>
  /\ <<info.pData[5], info.pData[6]>> \in {<<254, 255>>, <<255, 254>>}
  /\ C5_ChunkCountOf(info.pData) >= 2
  /\ C5_NonZero(info.pData, 16) /\ C5_NonZero(info.pData, 20)
  /\ C5_NonZero(info.pData, 32) /\ C5_NonZero(info.pData, 36)

C6_Magics == <<N64_Z64_MAGIC, N64_V64_MAGIC, N64_SWAP2_MAGIC, N64_LE32_MAGIC>>

C6_Usable(info) == info.hasData /\ info.addr = 0 /\ info.size >= 64

C7_InMemory(h) ==
  [i \in 1..Len(h) |->
     IF ~hostBE /\ ((i - 1) \div 4) \in {0, 1, 2, 4, 5}
       THEN h[4 * ((i - 1) \div 4) + 4 - ((i - 1) % 4)]
       ELSE h[i]]

\* C7: an N64 instance constructed from a canonical header stored in any of
\* the four container variants holds the in-memory header of the
\* canonical (Z64) header itself, and records the variant it came from.
C7_VariantsRoundTrip ==
  (JustConstructed /\ d.className = "N64" /\ canon.kind = "N64" /\ attached = "open"
     /\ canon.magicOk /\ canon.len >= SizeofN64RomHeader) =>
    /\ d.isValid
    /\ d.romType = canon.variant
    /\ d.hdr = C7_InMemory(N64Headers[canon.header])

\* a swap2 dump constructed on a little-endian host
C7_Witness ==
  /\ JustConstructed /\ d.className = "N64" /\ canon.kind = "N64" /\ attached = "open"
  /\ canon.variant = ROM_TYPE_SWAP2 /\ canon.magicOk /\ ~hostBE
  /\ d.isValid /\ d.romType = ROM_TYPE_SWAP2

\* two consecutive calls of one load on a valid instance
TwoLoads == d.className \in Classes /\ d.isValid /\ Len(calls) = 2 /\ calls[2].op \in Loads

\* C8: on a valid instance the second of two consecutive loadFieldData
\* calls, or of two consecutive loadMetaData calls, returns 0 when the
\* first returned a count, and the first's error code when the first
\* returned one.
C8_SecondLoadReturnsZero ==
  TwoLoads => calls[2].ret = (IF calls[1].ret >= 0 THEN 0 ELSE calls[1].ret)

\* a BRSTM file with a loop: the first load returned 8, the second 0
C8_Witness ==
  /\ TwoLoads /\ d.className = "BRSTM" /\ calls[2].op = "loadFieldData"
  /\ calls[1].ret = 8 /\ calls[2].ret = 0

\* C8 as the specification words it: the second of two consecutive loads
\* returns the count the first returned.
C8_SameCountTwice == TwoLoads => calls[2].ret = calls[1].ret

\* C9: on a valid instance the second of two consecutive calls of a load
\* issues no read on the byte source and leaves the FieldList and the
\* MetadataSet as the first call left them.
C9_SecondLoadReadsNothing ==
  TwoLoads =>
    /\ reads = <<>>
    /\ calls[2].fields = calls[1].fields
    /\ calls[2].metaData = calls[1].metaData

\* C10: loadFieldData returns -EBADF only on an instance that was given no
\* source, and returns -EIO on an instance constructed over an open source
\* that the constructor found invalid.
C10_ErrorCodes ==
  (d.className \in Classes /\ calls # <<>> /\ LastCall.op = "loadFieldData") =>
    /\ LastCall.ret = -EBADF => attached = "null"
    /\ (attached = "open" /\ ~d.isValid) => LastCall.ret = -EIO

(***************************************************************************)
(* WiiUPackage                                                             *)
(***************************************************************************)
WiiU_DirDetected == WiiU_isDirSupported_static("pkg") >= 0

\* one of the companion steps of the construction has failed: the ticket or
\* the TMD, the contents table, the FST content, or the FST's size or read
C11_StepFailed ==
  \/ ~WiiU_companionLoaded(dir.tik)
  \/ ~WiiU_companionLoaded(dir.tmd)
  \/ dir.contentsTable = <<>>
  \/ \A i \in 1..Len(pkg.contentsReaders) : pkg.contentsReaders[i] = 0
  \/ dir.fstSize <= 0
  \/ dir.fstSize > FstSizeMax
  \/ dir.fstShort

\* C11: a WiiUPackage constructed over a directory that passed directory
\* detection, one of whose companion steps failed (ticket, TMD, contents
\* table, FST content, FST size or read), is invalid: isValid is false and
\* systemName returns null.
C11_FailedStepInvalidates ==
  (wcall.op = "ctor" /\ wcall.arg = 1 /\ WiiU_DirDetected /\ C11_StepFailed)
    => (~pkg.isValid /\ WiiU_systemName(pkg, 0) = NULL)

OpenCall == wcall.op = "openContentFile"

Cached(p) == {i \in 1..Len(p.contentsReaders) : p.contentsReaders[i] # 0}

C12_WitnessFailed ==
  /\ OpenCall
  /\ wcall.ret = 0
  /\ Len(wcall.opens) = 2

(***************************************************************************)
(* Sample times                                                            *)
(***************************************************************************)
ZeroRateBrstm == d.className = "BRSTM" /\ d.isValid /\ BRSTM_sample_rate(d) = 0

\* C13: on a valid BRSTM whose sample rate is 0 no load divides by zero: the
\* process survives every load, the Length field is the "#DIV/0!" string,
\* and the loads that computed a time returned their counts.
C13_NoDivisionByZero ==
  ZeroRateBrstm =>
    /\ alive
    /\ \A i \in 1..Len(d.fields) :
         d.fields[i].name = "Length" => d.fields[i].value = DIV0

Formatted == calls # <<>> /\ calls[1].op = "formatSampleAsTime"

\* m:ss.cs with every part computed in integers
ExactTime(sample, rate) ==
  LET dm == U32DivMod(sample, rate)
      ms == U32DivMod(dm.q, 60)
      cs == (dm.r * 100) \div rate
  IN  U32ToDec(ms.q) \o ":" \o Dec02(ms.r) \o "." \o Dec02(cs)

\* C14: for every sample count and non-zero rate formatSampleAsTime prints
\* minutes:seconds.centiseconds with whole seconds = sample / rate and
\* centiseconds = floor((sample mod rate) * 100 / rate).
C14_ExactCentiseconds ==
  (Formatted /\ calls[1].rate # 0) =>
    calls[1].ret = ExactTime(calls[1].sample, calls[1].rate)

\* C15: formatSampleAsTime(0, 44100) is "0:00.00", and
\* formatSampleAsTime(44100, 44100), one second, is "0:01.00".
C15_Examples ==
  (Formatted /\ calls[1].rate = 44100) =>
    /\ calls[1].sample = <<0, 0>> => calls[1].ret = "0:00.00"
    /\ calls[1].sample = <<0, 44100>> => calls[1].ret = "0:01.00"

C15_Witness ==
  /\ Formatted /\ calls[1].rate = 44100 /\ calls[1].sample = <<0, 44100>>
  /\ calls[1].ret = "0:01.00"

\* C15 as the specification words it: 44100 samples at 44100 Hz print as
\* "1:00.00".
C15_ExamplesAsWritten ==
  (Formatted /\ calls[1].rate = 44100) =>
    /\ calls[1].sample = <<0, 0>> => calls[1].ret = "0:00.00"
    /\ calls[1].sample = <<0, 44100>> => calls[1].ret = "1:00.00"

(***************************************************************************)
(* PSF lengths                                                             *)
(***************************************************************************)
Measured == calls # <<>> /\ calls[1].op = "lengthToMs"

\* a number below 2^31 as a 32-bit value
ToU32(n) == <<n \div 65536, n % 65536>>

RECURSIVE DigitsValue(_)
DigitsValue(f) ==
  IF f = <<>> THEN 0 ELSE DigitsValue(SubSeq(f, 1, Len(f) - 1)) * 10 + (f[Len(f)] - 48)

\* the milliseconds that the fraction digits f stand for: the first three
\* digits, counted as tenths, hundredths and thousandths
FractionMs(f) ==
  CASE Len(f) = 0 -> 0
    [] Len(f) = 1 -> DigitsValue(f) * 100
    [] Len(f) = 2 -> DigitsValue(f) * 10
    [] OTHER -> DigitsValue(SubSeq(f, 1, 3))

PartsMs(p) ==
  (IF p.h # -1 THEN p.h * 3600000 ELSE 0) + (IF p.m # -1 THEN p.m * 60000 ELSE 0)
    + p.s * 1000 + FractionMs(p.f)

C16_WitnessHours ==
  /\ Measured
  /\ calls[1].str = <<49, 58, 48, 50, 58, 48, 51>>
  /\ calls[1].ret = ToU32(3723000)

\* C17: for s, s.f and s,f lengthToMs returns s*1000 plus the fraction in
\* milliseconds, with nothing added for minutes or hours, and a string that
\* matches no pattern gives 0.
C17_SecondsForms ==
  /\ (Measured /\ calls[1].kind = "parts" /\ calls[1].parts.m = -1
        /\ Len(calls[1].parts.f) <= 3) =>
       calls[1].ret = ToU32(PartsMs(calls[1].parts))
  /\ (Measured /\ calls[1].str = <<97, 98, 99>>) => calls[1].ret = ToU32(0)

\* C18: the number of fraction digits sets the scale, a fraction of more
\* than three digits is truncated to thousandths, and the fraction adds
\* less than 1000 ms: in the forms with minutes the result is the whole
\* seconds' milliseconds plus the first three fraction digits' worth.
C18_FractionBelowSecond ==
  (Measured /\ calls[1].kind = "parts" /\ calls[1].parts.m # -1) =>
    /\ FractionMs(calls[1].parts.f) < 1000
    /\ calls[1].ret = ToU32(PartsMs(calls[1].parts))

(***************************************************************************)
(* PSF release year                                                        *)
(***************************************************************************)
PropsMade == calls # <<>> /\ calls[1].op = "props"

ReleaseYears(props) ==
  {props[i].value : i \in {j \in 1..Len(props) : props[j].name = "ReleaseYear"}}

\* the digits "%04d" takes: four characters at most, the sign among them
YearDigitsTaken(p) ==
  SubSeq(p.digits, 1,
         IF Len(p.digits) < 4 - Len(p.sign) THEN Len(p.digits) ELSE 4 - Len(p.sign))

YearLeft(p) ==
  SubSeq(p.digits, Len(YearDigitsTaken(p)) + 1, Len(p.digits)) \o p.rest

TagRegionMax == 16384

\* C20: the bytes parseTags allocates and reads for the tag region never
\* exceed 16 KB, whatever the file size and the tag address.
C20_TagRegionCapped ==
  (calls # <<>> /\ calls[1].op = "parseTags") => calls[1].ret <= TagRegionMax

(***************************************************************************)
(* PSF tag maps                                                            *)
(***************************************************************************)
Parsed == calls # <<>> /\ calls[1].op = "parseTags" /\ "lines" \in DOMAIN calls[1]

LowerKey(l) == [i \in 1..Len(l.key) |-> tolower(l.key[i])]

\* the lines of the block that are key=value with neither part empty
TagLinesOf(lines) ==
  {i \in 1..Len(lines) :
     LET l == TagLinePool[lines[i]] IN l.eq /\ l.key # <<>> /\ l.val # <<>>}

\* the lines of the block that carry the key k, in any letter case
LinesOfKey(lines, k) ==
  {i \in TagLinesOf(lines) : LowerKey(TagLinePool[lines[i]]) = k}

HasUtf8Line(lines) == LinesOfKey(lines, K_utf8) # {}

\* C21: the values of the tag map are converted from the 8-bit encoding to
\* UTF-8 exactly when the block has no line with the key utf8, in any
\* letter case, and a non-empty value; all values are treated alike,
\* wherever the utf8 line stands: every key of a key=value line is in the
\* map, with the value of one of its lines, converted or not as a whole.
C21_Utf8Decision ==
  Parsed =>
    LET lines == calls[1].lines
        tags == calls[1].ret
    IN  /\ DOMAIN tags = {LowerKey(TagLinePool[lines[i]]) : i \in TagLinesOf(lines)}
        /\ \A k \in DOMAIN tags :
             \E i \in LinesOfKey(lines, k) :
               tags[k] = IF HasUtf8Line(lines)
                           THEN TagLinePool[lines[i]].val
                           ELSE cp1252_sjis_to_utf8(TagLinePool[lines[i]].val)

\* "title=\xe9", then "utf8=1": the title was left as it is
C21_Witness ==
  /\ Parsed
  /\ calls[1].lines = <<1, 3>>
  /\ calls[1].ret[K_title] = <<233>>

\* "artist=Me\xe8" alone: the artist was converted
C21_WitnessConverted ==
  /\ Parsed
  /\ calls[1].lines = <<6>>
  /\ calls[1].ret[K_artist] = <<77, 101, 195, 168>>

\* the greatest element of a non-empty set of numbers
MaxOf(S) == CHOOSE i \in S : \A j \in S : j <= i

\* C22: when a key occurs on several lines, in any letter case, the tag map
\* holds the value of the last of them.
C22_LastWriteWins ==
  Parsed =>
    LET lines == calls[1].lines
        tags == calls[1].ret
    IN  \A k \in DOMAIN tags :
          LET val == TagLinePool[lines[MaxOf(LinesOfKey(lines, k))]].val
          IN  tags[k] = IF HasUtf8Line(lines) THEN val ELSE cp1252_sjis_to_utf8(val)

(***************************************************************************)
(* PSF duration                                                            *)
(***************************************************************************)
Durations(props) ==
  {props[i].value : i \in {j \in 1..Len(props) : props[j].name = "Duration"}}

\* "abc", ":", ".5", "x1:23": length tags that match no duration pattern
MalformedLengths == {<<97, 98, 99>>, <<58>>, <<46, 53>>, <<120, 49, 58, 50, 51>>}

\* C23: the MetadataSet has a Duration only if there is a length tag and it
\* matches a duration pattern: without a length tag, and with a malformed
\* one, there is no Duration, and so none of value 0.
C23_DurationOnlyIfMatched ==
  /\ (calls # <<>> /\ calls[1].op = "propsNoLength") => Durations(calls[1].ret) = {}
  /\ (calls # <<>> /\ calls[1].op = "props" /\ calls[1].str \in MalformedLengths) =>
       Durations(calls[1].ret) = {}

(***************************************************************************)
(* BRSTM fields                                                            *)
(***************************************************************************)
\* the fields of HEAD chunk part 1 read in the byte order of the file
LogicalU16(buf, off) ==
  IF canon.fileBE THEN buf[off + 1] * 256 + buf[off + 2]
                  ELSE buf[off + 2] * 256 + buf[off + 1]

LogicalU32(buf, off) ==
  IF canon.fileBE THEN <<LogicalU16(buf, off), LogicalU16(buf, off + 2)>>
                  ELSE <<LogicalU16(buf, off + 2), LogicalU16(buf, off)>>

FieldNames(fields) == [i \in 1..Len(fields) |-> fields[i].name]

BrstmFieldOrder ==
  <<"Version", "Endianness", "Codec", "Channels", "Sample Rate", "Length", "Looping">>

ImageLoaded == calls # <<>> /\ calls[1].op = "loadInternalImage"

DirDetectorCall == wcall.op = "isDirSupported_static"

C26_WitnessAccepted ==
  DirDetectorCall /\ wcall.arg = "pkg" /\ wcall.ret = 0

C26_WitnessRom ==
  /\ wcall.op = "isRomSupported_static"
  /\ wcall.arg.size > 0 /\ wcall.arg.hasData
  /\ wcall.ret = -1

(***************************************************************************)
(* The detectors, called repeatedly                                        *)
(***************************************************************************)
DetectorCalls(log) == {i \in 1..Len(log) : log[i].op \in DetectorOps}

C27_WitnessInterleaved ==
  /\ Len(calls) = 2
  /\ calls[1].op = "BRSTM::isRomSupported_static"
  /\ calls[2].op = "N64::isRomSupported_static"
  /\ calls[1].arg = calls[2].arg
  /\ calls[1].ret = 0 /\ calls[2].ret = -1

(***************************************************************************)
(* The tag section of a PSF file                                           *)
(***************************************************************************)
\* "[TAG]"
PSF_TAG_MAGIC == <<91, 84, 65, 71, 93>>

\* the latest call was a first loadFieldData that made a field out of a tag
TagFieldsLoaded ==
  /\ d.className = "PSF"
  /\ calls # <<>>
  /\ calls[Len(calls)].op = "loadFieldData"
  /\ calls[Len(calls)].ret > 1

\* C28: parseTags returns tags only if the bytes at the tag address are the
\* tag-section magic: a PSF instance shows fields made from tags only when
\* "[TAG]" stands at the tag address of its file.
C28_TagsNeedMagic ==
  TagFieldsLoaded => FileRead(PSF_tag_addr(d), SizeofPSFTagMagic) = PSF_TAG_MAGIC

(***************************************************************************)
(* The BRSTM constructor's read of HEAD chunk part 1                        *)
(***************************************************************************)
\* the constructor has just run as far as the read of HEAD chunk part 1
Chunk1Read ==
  /\ d.className = "BRSTM"
  /\ calls # <<>>
  /\ calls[Len(calls)].op = "ctor"
  /\ Len(reads) >= 3

\* C29: the file offset the BRSTM constructor passes to seekAndRead for HEAD
\* chunk part 1 is the sum head_offset + 8 + head1_offset of the two fields
\* as numbers; it never wraps modulo 2^32.
C29_Head1OffsetIsSum ==
  Chunk1Read =>
    LET head_offset == BRSTM_head_offset(d)
        headHeader == FileRead(head_offset, SizeofHEADHeader)
        head1_offset == brstm32_to_cpu(d.needsByteswap, HostU32(headHeader, 12))
    IN  reads[3].off = WideAdd(WideAdd(head_offset, U32(8)), head1_offset)

(***************************************************************************)
(* What a constructed WiiUPackage owns                                     *)
(***************************************************************************)
\* the constructor ran to its end: reset(), which every failure calls, would
\* have freed the path
CtorRanToEnd == wcall.op = "ctor" /\ pkg.path

\* C30: a WiiUPackage whose construction ran to its end without reset owns
\* its ticket, its TMD and its FST, all three non-null; and across reset and
\* destruction no owned object is deleted more than once.
C30_OwnsCompanions ==
  /\ CtorRanToEnd => (pkg.ticket /\ pkg.tmd /\ pkg.fst)
  /\ \A m \in DOMAIN pkg.deleted : pkg.deleted[m] <= 1

=============================================================================
